---- MODULE Spec2Model ----
(***************************************************************************)
(* flow-logger: the journal parser (workJournalParser.ts), the commit      *)
(* timestamp resolver (gitLogParser.ts), the timing reconstructor          *)
(* (sessionReconstructor.ts), the calendar event builder and service       *)
(* (eventCreator.ts, calendarService.ts) and the command line (cli.ts).    *)
(*                                                                         *)
(* Text is modelled character by character: a JavaScript string is a       *)
(* sequence of one-character strings, and every regular expression of the  *)
(* source is an operator that scans such a sequence the way the regex      *)
(* engine does (leftmost match, greedy quantifiers, backtracking).         *)
(***************************************************************************)
EXTENDS Integers, Sequences, FiniteSets, TLC

VARIABLES
    filePath,   \* path handed to parseJournalFile
    content,    \* text of the journal file at filePath
    sessions,   \* Session[] held by the caller (parse result, then reconstructed)
    repo,       \* the git repository on disk: [exists, commits]
    call,       \* the last call of the resolver / reconstructor and its outcome
    pc,         \* position of the driver
    calendar,   \* the events the Google calendar holds
    runs        \* how many runs of the CLI have started

vars == <<filePath, content, sessions, repo, call, pc, calendar, runs>>

----------------------------------------------------------------------------
(* Bounds of the model *)

MaxLines == 4      \* lines per generated journal document
MaxLog == 2        \* commits in the repository history
MaxRefs == 2       \* references per direct resolver call

----------------------------------------------------------------------------
(* String primitives *)

Min(S) == CHOOSE x \in S : \A y \in S : x <= y
Max(S) == CHOOSE x \in S : \A y \in S : x >= y

DigitChars == <<"0", "1", "2", "3", "4", "5", "6", "7", "8", "9">>
IsDigit(c) == c \in {"0", "1", "2", "3", "4", "5", "6", "7", "8", "9"}
DigitVal(c) == (CHOOSE i \in 1..10 : DigitChars[i] = c) - 1

\* \s of the regex engine and the set String.prototype.trim removes
IsSpace(c) == c \in {" ", "\t", "\n", "\r"}
\* where ^ and $ match under the m flag, and what . does not match
IsLineTerminator(c) == c \in {"\n", "\r"}
IsHex(c) == IsDigit(c) \/ c \in {"a", "b", "c", "d", "e", "f", "A", "B", "C", "D", "E", "F"}

StartsWithAt(s, p, lit) ==
    /\ p >= 1
    /\ p + Len(lit) - 1 <= Len(s)
    /\ \A i \in 1..Len(lit) : s[p + i - 1] = lit[i]

\* first index >= p whose character is not whitespace, Len(s) + 1 if none
SkipSpace(s, p) ==
    LET stop == {q \in p..Len(s) : ~IsSpace(s[q])}
    IN  IF stop = {} THEN Len(s) + 1 ELSE Min(stop)

SkipDigits(s, p) ==
    LET stop == {q \in p..Len(s) : ~IsDigit(s[q])}
    IN  IF stop = {} THEN Len(s) + 1 ELSE Min(stop)

SkipHex(s, p) ==
    LET stop == {q \in p..Len(s) : ~IsHex(s[q])}
    IN  IF stop = {} THEN Len(s) + 1 ELSE Min(stop)

\* first index >= p holding a line terminator, Len(s) + 1 if none
LineEnd(s, p) ==
    LET stop == {q \in p..Len(s) : IsLineTerminator(s[q])}
    IN  IF stop = {} THEN Len(s) + 1 ELSE Min(stop)

AtLineStart(s, p) == p = 1 \/ (p >= 2 /\ p <= Len(s) + 1 /\ IsLineTerminator(s[p - 1]))

trim(s) ==
    LET keep == {q \in 1..Len(s) : ~IsSpace(s[q])}
    IN  IF keep = {} THEN <<>> ELSE SubSeq(s, Min(keep), Max(keep))

UpperLetters == <<"A", "B", "C", "D", "E", "F", "G", "H", "I", "J", "K", "L", "M", "N", "O", "P", "Q", "R", "S", "T", "U", "V", "W", "X", "Y", "Z">>
LowerLetters == <<"a", "b", "c", "d", "e", "f", "g", "h", "i", "j", "k", "l", "m", "n", "o", "p", "q", "r", "s", "t", "u", "v", "w", "x", "y", "z">>

LowerChar(c) ==
    IF \E i \in 1..26 : UpperLetters[i] = c
    THEN LowerLetters[CHOOSE i \in 1..26 : UpperLetters[i] = c]
    ELSE c

toLowerCase(s) == [i \in 1..Len(s) |-> LowerChar(s[i])]

startsWith(s, prefix) == StartsWithAt(s, 1, prefix)

\* literal text of a regex under the i flag
StartsWithAtIgnoreCase(s, p, lit) ==
    /\ p >= 1
    /\ p + Len(lit) - 1 <= Len(s)
    /\ \A i \in 1..Len(lit) : LowerChar(s[p + i - 1]) = LowerChar(lit[i])

\* i.includes(item)
includes(s, item) ==
    \E k \in 0..(Len(s) - Len(item)) : SubSeq(s, k + 1, k + Len(item)) = item

\* first index >= p holding the character c, Len(s) + 1 if none
SkipUntil(s, p, c) ==
    LET stop == {q \in p..Len(s) : s[q] = c}
    IN  IF stop = {} THEN Len(s) + 1 ELSE Min(stop)

RECURSIVE parseInt(_)
parseInt(d) ==
    IF Len(d) = 0 THEN 0
    ELSE 10 * parseInt(SubSeq(d, 1, Len(d) - 1)) + DigitVal(d[Len(d)])

TwoDigits(s, p) == 10 * DigitVal(s[p]) + DigitVal(s[p + 1])

\* the elements of a set of positions in ascending order
SortedSeq(S) ==
    [i \in 1..Cardinality(S) |->
        CHOOSE p \in S : Cardinality({q \in S : q < p}) = i - 1]

\* [...new Set(xs)]: first occurrences, in order
RECURSIVE Dedup(_)
Dedup(xs) ==
    IF Len(xs) = 0 THEN <<>>
    ELSE LET front == Dedup(SubSeq(xs, 1, Len(xs) - 1))
             x == xs[Len(xs)]
         IN  IF \E i \in 1..Len(front) : front[i] = x THEN front ELSE Append(front, x)

----------------------------------------------------------------------------
(* Date: an instant in milliseconds since 2026-01-01T00:00:00Z, the Invalid *)
(* Date (getTime() is NaN), or no Date at all (undefined / null).           *)

Undefined == [def |-> FALSE, valid |-> FALSE, ms |-> 0]
InvalidDate == [def |-> TRUE, valid |-> FALSE, ms |-> 0]
DateOf(n) == [def |-> TRUE, valid |-> TRUE, ms |-> n]

\* new Date(d.getTime() + delta)
DatePlus(d, delta) == IF d.valid THEN DateOf(d.ms + delta) ELSE InvalidDate

\* a < b on Dates: false whenever either side is NaN
DateLess(a, b) == a.valid /\ b.valid /\ a.ms < b.ms

\* minutes east of UTC of the machine's local zone (America/Los_Angeles, winter)
LocalOffsetMinutes == 0 - 8 * 60

MsPerMinute == 60 * 1000
MsPerDay == 24 * 60 * MsPerMinute

DateShapeAt(s, p) ==
    /\ p >= 1
    /\ p + 9 <= Len(s)
    /\ \A i \in {0, 1, 2, 3, 5, 6, 8, 9} : IsDigit(s[p + i])
    /\ s[p + 4] = "-"
    /\ s[p + 7] = "-"

TimeShapeAt(s, p) ==
    /\ p + 7 <= Len(s)
    /\ \A i \in {0, 1, 3, 4, 6, 7} : IsDigit(s[p + i])
    /\ s[p + 2] = ":"
    /\ s[p + 5] = ":"

OffsetShapeAt(s, p) ==
    /\ p + 5 <= Len(s)
    /\ s[p] \in {"+", "-"}
    /\ IsDigit(s[p + 1]) /\ IsDigit(s[p + 2])
    /\ s[p + 3] = ":"
    /\ IsDigit(s[p + 4]) /\ IsDigit(s[p + 5])

OffsetMinutesAt(s, p) ==
    (IF s[p] = "-" THEN 0 - 1 ELSE 1) * (60 * TwoDigits(s, p + 1) + TwoDigits(s, p + 4))

\* new Date(str) for the shapes the program builds or receives:
\* YYYY-MM-DDTHH:MM:SS (local wall clock), YYYY-MM-DDTHH:MM:SS+HH:MM and
\* YYYY-MM-DDTHH:MM:SS.sssZ (what toISOString prints).
\* Days are counted in months of 31 days from 2026-01-01, which keeps the
\* order and the distinctness of the dates of one month.
newDate(str) ==
    IF ~(DateShapeAt(str, 1) /\ Len(str) >= 19 /\ str[11] = "T" /\ TimeShapeAt(str, 12))
    THEN InvalidDate
    ELSE LET year == parseInt(SubSeq(str, 1, 4))
             month == TwoDigits(str, 6)
             day == TwoDigits(str, 9)
             hour == TwoDigits(str, 12)
             minute == TwoDigits(str, 15)
             second == TwoDigits(str, 18)
             inRange == /\ month \in 1..12 /\ day \in 1..31
                        /\ hour \in 0..23 /\ minute \in 0..59 /\ second \in 0..59
             days == (year - 2026) * 372 + (month - 1) * 31 + (day - 1)
             wall == days * MsPerDay + (hour * 60 + minute) * MsPerMinute + second * 1000
         IN  IF ~inRange THEN InvalidDate
             ELSE IF Len(str) = 19 THEN DateOf(wall - LocalOffsetMinutes * MsPerMinute)
             ELSE IF OffsetShapeAt(str, 20) /\ Len(str) = 25
                  THEN DateOf(wall - OffsetMinutesAt(str, 20) * MsPerMinute)
             ELSE IF Len(str) = 24 /\ str[20] = "." /\ str[24] = "Z"
                     /\ \A i \in 21..23 : IsDigit(str[i])
                  THEN DateOf(wall + parseInt(SubSeq(str, 21, 23)))
             ELSE InvalidDate

----------------------------------------------------------------------------
(* workJournalParser.ts *)

DEFAULT_TIMEZONE == "America/Los_Angeles"

Unknown == <<"u", "n", "k", "n", "o", "w", "n">>
General == <<"G", "e", "n", "e", "r", "a", "l">>
NoTheme == <<"(", "n", "o", " ", "t", "h", "e", "m", "e", ")">>

\* null of extractSessionNumber (parseInt of \d+ is never negative)
Null == 0 - 1

\* basename(filePath)
basename(path) ==
    LET slashes == {q \in 1..Len(path) : path[q] = "/"}
    IN  IF slashes = {} THEN path ELSE SubSeq(path, Max(slashes) + 1, Len(path))

\* filename.match(/^(\d{4}-\d{2}-\d{2})\.md$/): the date, or <<>> for no match
FilenameDate(filename) ==
    IF Len(filename) = 13 /\ DateShapeAt(filename, 1) /\ StartsWithAt(filename, 11, <<".", "m", "d">>)
    THEN SubSeq(filename, 1, 10)
    ELSE <<>>

\* /^#\s+(\d{4}-\d{2}-\d{2})/m tried at p: index of the date, or 0
TopHeadingDateAt(s, p) ==
    IF ~(AtLineStart(s, p) /\ StartsWithAt(s, p, <<"#">>)) THEN 0
    ELSE LET q == SkipSpace(s, p + 1)
         IN  IF q > p + 1 /\ DateShapeAt(s, q) THEN q ELSE 0

extractDateFromContent(c) ==
    LET hits == {p \in 1..Len(c) : TopHeadingDateAt(c, p) # 0}
    IN  IF hits = {} THEN Unknown
        ELSE LET q == TopHeadingDateAt(c, Min(hits)) IN SubSeq(c, q, q + 9)

\* first index >= k holding "-" or "\n", Len(s) + 1 if none: where [^-\n]+ stops
ProjectRunEnd(s, k) ==
    LET stop == {q \in k..Len(s) : s[q] \in {"-", "\n"}}
    IN  IF stop = {} THEN Len(s) + 1 ELSE Min(stop)

\* /^#\s+\d{4}-\d{2}-\d{2}:\s*([^-\n]+)/m tried at p: index where the capture
\* starts, or 0.  \s* is greedy and gives characters back while [^-\n]+ has
\* nothing to take.
ProjectCaptureAt(s, p) ==
    LET q == TopHeadingDateAt(s, p)
    IN  IF q = 0 \/ ~StartsWithAt(s, q + 10, <<":">>) THEN 0
        ELSE LET r == q + 11
                 w == SkipSpace(s, r)
                 back == {k \in r..(w - 1) : s[k] # "\n"}
             IN  IF w <= Len(s) /\ s[w] # "-" THEN w
                 ELSE IF back = {} THEN 0
                 ELSE Max(back)

extractProjectFromHeading(c) ==
    LET hits == {p \in 1..Len(c) : ProjectCaptureAt(c, p) # 0}
    IN  IF hits = {} THEN General
        ELSE LET k == ProjectCaptureAt(c, Min(hits))
             IN  trim(SubSeq(c, k, ProjectRunEnd(c, k) - 1))

\* /^##\s+Session\s+\d+/ under the m flag tried at p: index of the first
\* digit, or 0 when the regex does not match there
SessionHeaderDigitsAt(s, p) ==
    IF ~(AtLineStart(s, p) /\ StartsWithAt(s, p, <<"#", "#">>)) THEN 0
    ELSE LET q == SkipSpace(s, p + 2)
         IN  IF q = p + 2 \/ ~StartsWithAt(s, q, <<"S", "e", "s", "s", "i", "o", "n">>) THEN 0
             ELSE LET t == SkipSpace(s, q + 7)
                  IN  IF t = q + 7 \/ t > Len(s) \/ ~IsDigit(s[t]) THEN 0 ELSE t

SessionHeaderAt(s, p) == SessionHeaderDigitsAt(s, p) # 0

\* content.split(/(?=^##\s+Session\s+\d+)/gm).filter(part => part.match(...)):
\* split cuts before every index but the first where the lookahead holds
splitIntoSessions(c) ==
    LET cuts == {p \in 2..Len(c) : SessionHeaderAt(c, p)}
        starts == SortedSeq({1} \cup cuts)
        n == Len(starts)
        parts == [i \in 1..n |->
                    SubSeq(c, starts[i], IF i < n THEN starts[i + 1] - 1 ELSE Len(c))]
    IN  SelectSeq(parts, LAMBDA part : \E p \in 1..Len(part) : SessionHeaderAt(part, p))

extractSessionNumber(sc) ==
    LET hits == {p \in 1..Len(sc) : SessionHeaderAt(sc, p)}
    IN  IF hits = {} THEN Null
        ELSE LET d == SessionHeaderDigitsAt(sc, Min(hits))
             IN  parseInt(SubSeq(sc, d, SkipDigits(sc, d) - 1))

\* /^##\s+Session\s+\d+:\s*(.+)$/m tried at p: index where the capture (.+)
\* starts, or 0.  \s* takes all the whitespace after the colon, line breaks
\* included; when that reaches the end of the text it gives characters back
\* until . has one to take.
ThemeCaptureAt(s, p) ==
    LET d == SessionHeaderDigitsAt(s, p)
    IN  IF d = 0 THEN 0
        ELSE LET colon == SkipDigits(s, d)
             IN  IF ~StartsWithAt(s, colon, <<":">>) THEN 0
                 ELSE LET r == colon + 1
                          q == SkipSpace(s, r)
                          back == {k \in r..Len(s) : ~IsLineTerminator(s[k])}
                      IN  IF q <= Len(s) THEN q
                          ELSE IF back = {} THEN 0
                          ELSE Max(back)

extractTheme(sc) ==
    LET hits == {p \in 1..Len(sc) : ThemeCaptureAt(sc, p) # 0}
    IN  IF hits = {} THEN NoTheme
        ELSE LET k == ThemeCaptureAt(sc, Min(hits))
             IN  trim(SubSeq(sc, k, LineEnd(sc, k) - 1))

IsHHMM(s, p) ==
    /\ p + 4 <= Len(s)
    /\ IsDigit(s[p]) /\ IsDigit(s[p + 1])
    /\ s[p + 2] = ":"
    /\ IsDigit(s[p + 3]) /\ IsDigit(s[p + 4])

\* /<!--\s*session-time:\s*(\d{2}:\d{2})-(\d{2}:\d{2})\s*-->/ tried at p:
\* index of the first HH:MM, or 0
TimeAnnotationAt(s, p) ==
    IF ~StartsWithAt(s, p, <<"<", "!", "-", "-">>) THEN 0
    ELSE LET a == SkipSpace(s, p + 4)
         IN  IF ~StartsWithAt(s, a, <<"s", "e", "s", "s", "i", "o", "n", "-", "t", "i", "m", "e", ":">>) THEN 0
             ELSE LET b == SkipSpace(s, a + 13)
                  IN  IF ~(IsHHMM(s, b) /\ StartsWithAt(s, b + 5, <<"-">>) /\ IsHHMM(s, b + 6))
                      THEN 0
                      ELSE IF StartsWithAt(s, SkipSpace(s, b + 11), <<"-", "-", ">">>) THEN b ELSE 0

\* an extractor that builds the start of the range only
extractTimeAnnotationStartOnly(sc, date) ==
    LET hits == {p \in 1..Len(sc) : TimeAnnotationAt(sc, p) # 0}
    IN  IF hits = {} THEN [startTime |-> Undefined, endTime |-> Undefined]
        ELSE LET b == TimeAnnotationAt(sc, Min(hits))
                 startStr == SubSeq(sc, b, b + 4)
             IN  [startTime |-> newDate(date \o <<"T">> \o startStr \o <<":", "0", "0">>),
                  endTime |-> Undefined]

\* an extractor that reads the start time for both ends of the range
extractTimeAnnotationStartTwice(sc, date) ==
    LET hits == {p \in 1..Len(sc) : TimeAnnotationAt(sc, p) # 0}
    IN  IF hits = {} THEN [startTime |-> Undefined, endTime |-> Undefined]
        ELSE LET b == TimeAnnotationAt(sc, Min(hits))
                 startStr == SubSeq(sc, b, b + 4)
             IN  [startTime |-> newDate(date \o <<"T">> \o startStr \o <<":", "0", "0">>),
                  endTime |-> newDate(date \o <<"T">> \o startStr \o <<":", "0", "0">>)]

extractTimeAnnotation(sc, date) ==
    LET hits == {p \in 1..Len(sc) : TimeAnnotationAt(sc, p) # 0}
    IN  IF hits = {} THEN [startTime |-> Undefined, endTime |-> Undefined]
        ELSE LET b == TimeAnnotationAt(sc, Min(hits))
                 startStr == SubSeq(sc, b, b + 4)
                 endStr == SubSeq(sc, b + 6, b + 10)
             IN  [startTime |-> newDate(date \o <<"T">> \o startStr \o <<":", "0", "0">>),
                  endTime |-> newDate(date \o <<"T">> \o endStr \o <<":", "0", "0">>)]

\* /`([0-9a-f]{7,40})`/gi tried at p: index of the closing backtick, or 0
\* (the backtick is written "'" here: a TLA+ string cannot hold U+0060)
CommitMatchAt(s, p) ==
    IF ~StartsWithAt(s, p, <<"'">>) THEN 0
    ELSE LET h == SkipHex(s, p + 1)
             n == h - (p + 1)
         IN  IF n >= 7 /\ n <= 40 /\ StartsWithAt(s, h, <<"'">>) THEN h ELSE 0

\* matchAll: successive non-overlapping matches from index p on
RECURSIVE CommitMatchesFrom(_, _)
CommitMatchesFrom(s, p) ==
    LET hits == {q \in p..Len(s) : CommitMatchAt(s, q) # 0}
    IN  IF hits = {} THEN <<>>
        ELSE LET q == Min(hits)
                 e == CommitMatchAt(s, q)
             IN  <<SubSeq(s, q + 1, e - 1)>> \o CommitMatchesFrom(s, e + 1)

extractCommits(sc) == Dedup(CommitMatchesFrom(sc, 1))

\* extractSection's "no match" (a match is never empty: it starts with ###)
NoSection == <<>>

\* (?=###|##(?!#)|$) at e, without the m flag: $ is the end of the text
SectionStopAt(s, e) ==
    \/ StartsWithAt(s, e, <<"#", "#", "#">>)
    \/ StartsWithAt(s, e, <<"#", "#">>) /\ ~StartsWithAt(s, e + 2, <<"#">>)
    \/ e = Len(s) + 1

\* /###\s+<sectionName>[\s\S]*?(?=###|##(?!#)|$)/i tried at p: index after
\* the section name, or 0
SectionHeadAt(s, p, sectionName) ==
    IF ~StartsWithAt(s, p, <<"#", "#", "#">>) THEN 0
    ELSE LET q == SkipSpace(s, p + 3)
         IN  IF q > p + 3 /\ StartsWithAtIgnoreCase(s, q, sectionName)
             THEN q + Len(sectionName) ELSE 0

\* the lazy [\s\S]*? stops at the first index where the lookahead holds
extractSection(sc, sectionName) ==
    LET hits == {p \in 1..Len(sc) : SectionHeadAt(sc, p, sectionName) # 0}
    IN  IF hits = {} THEN NoSection
        ELSE LET p == Min(hits)
                 a == SectionHeadAt(sc, p, sectionName)
                 e == Min({k \in a..(Len(sc) + 1) : SectionStopAt(sc, k)})
             IN  SubSeq(sc, p, e - 1)

\* /DD([^D]+)DD/ for the delimiter DD tried at p: index of the closing
\* delimiter, or 0
DelimitedAt(s, p, delim) ==
    LET a == p + Len(delim)
        e == SkipUntil(s, a, delim[1])
    IN  IF StartsWithAt(s, p, delim) /\ e > a /\ StartsWithAt(s, e, delim) THEN e ELSE 0

\* item.replace(/DD([^D]+)DD/g, "$1") from index p on: every match, left to
\* right, is replaced by its capture
RECURSIVE replaceDelimited(_, _, _)
replaceDelimited(s, p, delim) ==
    LET hits == {q \in p..Len(s) : DelimitedAt(s, q, delim) # 0}
    IN  IF hits = {} THEN SubSeq(s, p, Len(s))
        ELSE LET q == Min(hits)
                 e == DelimitedAt(s, q, delim)
             IN  SubSeq(s, p, q - 1) \o SubSeq(s, q + Len(delim), e - 1)
                     \o replaceDelimited(s, e + Len(delim), delim)

cleanItem(item) ==
    trim(replaceDelimited(replaceDelimited(item, 1, <<"*", "*">>), 1, <<"'">>))

\* /^\s*\d+\./m tried at p: index after the dot, or 0
NumberedMarkerAt(s, p) ==
    IF ~AtLineStart(s, p) THEN 0
    ELSE LET q == SkipSpace(s, p)
             d == SkipDigits(s, q)
         IN  IF d > q /\ StartsWithAt(s, d, <<".">>) THEN d + 1 ELSE 0

\* /^\s*[-*]/m tried at p: index after the bullet, or 0
BulletMarkerAt(s, p) ==
    IF ~AtLineStart(s, p) THEN 0
    ELSE LET q == SkipSpace(s, p)
         IN  IF q <= Len(s) /\ s[q] \in {"-", "*"} THEN q + 1 ELSE 0

\* \s+(.+)$ after a marker that ends before index m (0: no marker): index
\* where the capture starts, or 0.  \s+ takes all the whitespace, line breaks
\* included; when that reaches the end of the text it gives characters back
\* until . has one to take.
ItemCaptureAt(s, m) ==
    IF m = 0 THEN 0
    ELSE LET r == SkipSpace(s, m)
             back == {k \in (m + 1)..Len(s) : ~IsLineTerminator(s[k])}
         IN  IF r = m THEN 0
             ELSE IF r <= Len(s) THEN r
             ELSE IF back = {} THEN 0
             ELSE Max(back)

\* the numbered (or the bullet) regex tried at p: index where the capture
\* starts, or 0
ListItemAt(s, p, numbered) ==
    ItemCaptureAt(s, IF numbered THEN NumberedMarkerAt(s, p) ELSE BulletMarkerAt(s, p))

\* matchAll of the numbered or the bullet regex from index p on: the cleaned
\* captures, each match ending where its line ends
RECURSIVE ListMatchesFrom(_, _, _)
ListMatchesFrom(s, p, numbered) ==
    LET hits == {q \in p..Len(s) : ListItemAt(s, q, numbered) # 0}
    IN  IF hits = {} THEN <<>>
        ELSE LET k == ListItemAt(s, Min(hits), numbered)
             IN  <<cleanItem(SubSeq(s, k, LineEnd(s, k) - 1))>>
                     \o ListMatchesFrom(s, LineEnd(s, k), numbered)

\* /^\s*\*\*([^*]+)\*\*/m tried at p: index where the capture starts, or 0
BoldCaptureAt(s, p) ==
    IF ~AtLineStart(s, p) THEN 0
    ELSE LET q == SkipSpace(s, p)
             e == SkipUntil(s, q + 2, "*")
         IN  IF StartsWithAt(s, q, <<"*", "*">>) /\ e > q + 2 /\ StartsWithAt(s, e, <<"*", "*">>)
             THEN q + 2 ELSE 0

\* the loop over boldMatches from index p on: a bold line is added unless
\* some item already contains its text
RECURSIVE BoldItemsFrom(_, _, _)
BoldItemsFrom(s, p, items) ==
    LET hits == {q \in p..Len(s) : BoldCaptureAt(s, q) # 0}
    IN  IF hits = {} THEN items
        ELSE LET a == BoldCaptureAt(s, Min(hits))
                 e == SkipUntil(s, a, "*")
                 item == trim(SubSeq(s, a, e - 1))
             IN  BoldItemsFrom(s, e + 2,
                     IF \E i \in 1..Len(items) : includes(items[i], item)
                     THEN items ELSE Append(items, item))

extractListItems(section) ==
    BoldItemsFrom(section, 1,
        ListMatchesFrom(section, 1, TRUE) \o ListMatchesFrom(section, 1, FALSE))

extractOutcomes(sc) ==
    LET section == extractSection(sc, <<"W", "h", "a", "t", " ", "I", " ", "W", "o", "r", "k", "e", "d", " ", "O", "n">>)
    IN  IF section = NoSection THEN <<>> ELSE extractListItems(section)

extractLearnings(sc) ==
    LET section == extractSection(sc, <<"L", "e", "a", "r", "n", "i", "n", "g", "s">>)
    IN  IF section = NoSection THEN <<>> ELSE extractListItems(section)

\* the callback of sessions.map in parseJournalFile
sessionFromBlock(path, date, project, sessionContent, index) ==
    LET number == extractSessionNumber(sessionContent)
        annotation == extractTimeAnnotation(sessionContent, date)
    IN  [date |-> date,
         sessionNumber |-> IF number # Null THEN number ELSE index + 1,
         project |-> project,
         theme |-> extractTheme(sessionContent),
         startTime |-> annotation.startTime,
         endTime |-> annotation.endTime,
         timezone |-> DEFAULT_TIMEZONE,
         timingSource |-> IF annotation.startTime.def /\ annotation.endTime.def
                          THEN "annotation" ELSE "inferred",
         commits |-> extractCommits(sessionContent),
         outcomes |-> extractOutcomes(sessionContent),
         learnings |-> extractLearnings(sessionContent),
         sourceFile |-> path]

\* blocks are numbered from 1 here, so the callback's index is k - 1
parseJournalFile(path, c) ==
    LET dateMatch == FilenameDate(basename(path))
        date == IF dateMatch # <<>> THEN dateMatch ELSE extractDateFromContent(c)
        project == extractProjectFromHeading(c)
        blocks == splitIntoSessions(c)
    IN  [k \in 1..Len(blocks) |-> sessionFromBlock(path, date, project, blocks[k], k - 1)]

----------------------------------------------------------------------------
(* gitLogParser.ts *)

\* s.split(sep) for a one-character separator: the pieces between separators
split(s, sep) ==
    LET at == SortedSeq({q \in 1..Len(s) : s[q] = sep})
        n == Len(at)
    IN  [i \in 1..(n + 1) |->
            SubSeq(s, IF i = 1 THEN 1 ELSE at[i - 1] + 1,
                      IF i = n + 1 THEN Len(s) ELSE at[i] - 1)]

\* A JavaScript Map: entries in insertion order, set() overwrites in place
MapHas(m, k) == \E i \in 1..Len(m) : m[i].key = k
MapSet(m, k, v) ==
    IF MapHas(m, k)
    THEN [i \in 1..Len(m) |-> IF m[i].key = k THEN [key |-> k, value |-> v] ELSE m[i]]
    ELSE Append(m, [key |-> k, value |-> v])
MapGet(m, k) == m[CHOOSE i \in 1..Len(m) : m[i].key = k].value
MapKeys(m) == {m[i].key : i \in 1..Len(m)}

\* directory the repository lives in, and the process's working directory
RepoDir == "/repo"
Cwd == "/repo"

\* what `git log --format="%H %aI" --all` prints for a history
RECURSIVE GitLogOutput(_)
GitLogOutput(commits) ==
    IF Len(commits) = 0 THEN <<>>
    ELSE commits[1].hash \o <<" ">> \o commits[1].date \o <<"\n">>
         \o GitLogOutput(Tail(commits))

\* execSync(`git log ...`, { cwd }): throws unless cwd holds a repository
execSync(r, cwd) ==
    IF cwd = RepoDir /\ r.exists
    THEN [threw |-> FALSE, output |-> GitLogOutput(r.commits)]
    ELSE [threw |-> TRUE, output |-> <<>>]

convertOffsetToTimezone(offset) ==
    CASE offset = <<"-", "0", "8", ":", "0", "0">> -> "America/Los_Angeles"
      [] offset = <<"-", "0", "7", ":", "0", "0">> -> "America/Denver"
      [] offset = <<"-", "0", "6", ":", "0", "0">> -> "America/Chicago"
      [] offset = <<"-", "0", "5", ":", "0", "0">> -> "America/New_York"
      [] offset = <<"-", "0", "4", ":", "0", "0">> -> "America/New_York"
      [] offset = <<"+", "0", "0", ":", "0", "0">> -> "UTC"
      [] offset = <<"+", "0", "1", ":", "0", "0">> -> "Europe/London"
      [] OTHER -> "America/Los_Angeles"

\* isoTimestamp.match(/([+-]\d{2}:\d{2})$/)
TimezoneOf(isoTimestamp) ==
    LET p == Len(isoTimestamp) - 5
    IN  IF p >= 1 /\ OffsetShapeAt(isoTimestamp, p)
        THEN convertOffsetToTimezone(SubSeq(isoTimestamp, p, Len(isoTimestamp)))
        ELSE "America/Los_Angeles"

\* the loop over output.trim().split("\n") that fills fullHashMap
RECURSIVE FullHashMap(_)
FullHashMap(lines) ==
    IF Len(lines) = 0 THEN <<>>
    ELSE LET m == FullHashMap(SubSeq(lines, 1, Len(lines) - 1))
             line == lines[Len(lines)]
             fields == split(line, " ")
         IN  IF Len(line) = 0 THEN m
             ELSE IF Len(fields) < 2 \/ Len(fields[1]) = 0 \/ Len(fields[2]) = 0 THEN m
             ELSE MapSet(m, fields[1],
                         [timestamp |-> newDate(fields[2]), timezone |-> TimezoneOf(fields[2])])

\* a resolver that compares the request as spelled
NormalizeRequestAsGiven(requestedHash) == requestedHash

\* const normalizedRequest = requestedHash.toLowerCase()
NormalizeRequest(requestedHash) == toLowerCase(requestedHash)

\* a resolver that takes the first enumerated commit whatever its hash
HashMatchesAlways(fullHash, normalizedRequest) == TRUE

\* fullHash.toLowerCase().startsWith(normalizedRequest)
HashMatches(fullHash, normalizedRequest) ==
    startsWith(toLowerCase(fullHash), normalizedRequest)

\* the loop over the requested hashes: the first entry of fullHashMap whose
\* key starts with the request, compared in lower case
RECURSIVE MatchRequested(_, _)
MatchRequested(commits, fullHashMap) ==
    IF Len(commits) = 0 THEN <<>>
    ELSE LET result == MatchRequested(SubSeq(commits, 1, Len(commits) - 1), fullHashMap)
             requestedHash == commits[Len(commits)]
             normalizedRequest == NormalizeRequest(requestedHash)
             hits == {i \in 1..Len(fullHashMap) :
                        HashMatches(fullHashMap[i].key, normalizedRequest)}
         IN  IF hits = {} THEN result
             ELSE LET data == fullHashMap[Min(hits)].value
                  IN  MapSet(result, requestedHash,
                             [hash |-> requestedHash,
                              timestamp |-> data.timestamp,
                              timezone |-> data.timezone])

\* a resolver without the try/catch around the history query
getCommitTimestampsUncaught(r, commits, repoPath) ==
    IF Len(commits) = 0 THEN [threw |-> FALSE, value |-> <<>>, queries |-> 0]
    ELSE LET ran == execSync(r, repoPath)
         IN  IF ran.threw
             THEN [threw |-> TRUE, value |-> <<>>, queries |-> 1]
             ELSE [threw |-> FALSE,
                   value |-> MatchRequested(commits,
                                 FullHashMap(split(trim(ran.output), "\n"))),
                   queries |-> 1]

\* a resolver that runs the history query once more when it failed
getCommitTimestampsRetrying(r, commits, repoPath) ==
    IF Len(commits) = 0 THEN [threw |-> FALSE, value |-> <<>>, queries |-> 0]
    ELSE LET ran == execSync(r, repoPath)
         IN  IF ran.threw
             THEN [threw |-> FALSE, value |-> <<>>, queries |-> 2]
             ELSE [threw |-> FALSE,
                   value |-> MatchRequested(commits,
                                 FullHashMap(split(trim(ran.output), "\n"))),
                   queries |-> 1]

\* the result carries, besides the returned Map, whether the call raised and
\* how many history queries it issued
getCommitTimestamps(r, commits, repoPath) ==
    IF Len(commits) = 0 THEN [threw |-> FALSE, value |-> <<>>, queries |-> 0]
    ELSE LET ran == execSync(r, repoPath)
         IN  IF ran.threw
             THEN [threw |-> FALSE, value |-> <<>>, queries |-> 1]
             ELSE [threw |-> FALSE,
                   value |-> MatchRequested(commits,
                                 FullHashMap(split(trim(ran.output), "\n"))),
                   queries |-> 1]

\* a comparison that never finds a timestamp earlier
TimestampBeforeNever(timestamp, earliest) == FALSE

\* data.timestamp < earliest
TimestampBefore(timestamp, earliest) == DateLess(timestamp, earliest)

\* the loop of getSessionTimeRange over commitTimestamps.values()
RECURSIVE getSessionTimeRange(_)
getSessionTimeRange(commitTimestamps) ==
    IF Len(commitTimestamps) = 0
    THEN [earliest |-> Undefined, latest |-> Undefined, timezone |-> "America/Los_Angeles"]
    ELSE LET acc == getSessionTimeRange(SubSeq(commitTimestamps, 1, Len(commitTimestamps) - 1))
             data == commitTimestamps[Len(commitTimestamps)].value
             lower == ~acc.earliest.def \/ TimestampBefore(data.timestamp, acc.earliest)
             higher == ~acc.latest.def \/ DateLess(acc.latest, data.timestamp)
         IN  [earliest |-> IF lower THEN data.timestamp ELSE acc.earliest,
              latest |-> IF higher THEN data.timestamp ELSE acc.latest,
              timezone |-> IF lower THEN data.timezone ELSE acc.timezone]

----------------------------------------------------------------------------
(* sessionReconstructor.ts *)

\* defaults with the two buffers exchanged
DEFAULT_CONFIG_Swapped ==
    [repoPath |-> Cwd,
     defaultDurationMinutes |-> 60,
     preCommitBufferMinutes |-> 5,
     postCommitBufferMinutes |-> 15]

DEFAULT_CONFIG ==
    [repoPath |-> Cwd,
     defaultDurationMinutes |-> 60,
     preCommitBufferMinutes |-> 15,
     postCommitBufferMinutes |-> 5]

\* { ...DEFAULT_CONFIG, ...config }: over.keys are the keys that config sets
Spread(base, over) ==
    [repoPath |->
        IF "repoPath" \in over.keys THEN over.repoPath ELSE base.repoPath,
     defaultDurationMinutes |-> base.defaultDurationMinutes,
     preCommitBufferMinutes |->
        IF "preCommitBufferMinutes" \in over.keys
        THEN over.preCommitBufferMinutes ELSE base.preCommitBufferMinutes,
     postCommitBufferMinutes |->
        IF "postCommitBufferMinutes" \in over.keys
        THEN over.postCommitBufferMinutes ELSE base.postCommitBufferMinutes]

hasTimingInfo(session) == session.startTime.def /\ session.endTime.def

\* a reconstructor without the early return for timed sessions
AlreadyTimedNever(session) == FALSE

\* an early return for annotated sessions only
AlreadyTimedByAnnotation(session) ==
    session.timingSource = "annotation" /\ session.startTime.def /\ session.endTime.def

\* if (session.startTime && session.endTime): a Date object is always truthy
AlreadyTimed(session) == session.startTime.def /\ session.endTime.def

\* the result carries, besides the returned session, whether the call
\* raised, the history queries issued, the Map the resolver returned and the
\* argument object as the call leaves it (no statement writes to it)
reconstructSessionTiming(r, session, config) ==
    LET fullConfig == Spread(DEFAULT_CONFIG, config)
        untouched == [threw |-> FALSE, value |-> session, queries |-> 0,
                      timestamps |-> <<>>, input |-> session]
    IN  IF AlreadyTimed(session) THEN untouched
        ELSE IF ~(Len(session.commits) > 0 /\ fullConfig.repoPath # "") THEN untouched
        ELSE LET got == getCommitTimestamps(r, session.commits, fullConfig.repoPath)
                 range == getSessionTimeRange(got.value)
             IN  IF got.threw
                 THEN [threw |-> TRUE, value |-> session,
                       queries |-> got.queries, timestamps |-> <<>>, input |-> session]
                 ELSE IF Len(got.value) > 0 /\ range.earliest.def /\ range.latest.def
                 THEN [threw |-> FALSE,
                       value |-> [session EXCEPT
                           !.startTime = DatePlus(range.earliest,
                               0 - fullConfig.preCommitBufferMinutes * 60 * 1000),
                           !.endTime = DatePlus(range.latest,
                               fullConfig.postCommitBufferMinutes * 60 * 1000),
                           !.timezone = range.timezone],
                       queries |-> got.queries, timestamps |-> got.value,
                       input |-> session]
                 ELSE [threw |-> FALSE, value |-> session,
                       queries |-> got.queries, timestamps |-> got.value,
                       input |-> session]

\* a batch form that keeps only the sessions whose timing resolved
reconstructAllSessionsTimedOnly(r, ss, config) ==
    SelectSeq([i \in 1..Len(ss) |-> reconstructSessionTiming(r, ss[i], config).value],
              LAMBDA s : s.startTime.def /\ s.endTime.def)

reconstructAllSessions(r, ss, config) ==
    [i \in 1..Len(ss) |-> reconstructSessionTiming(r, ss[i], config).value]

----------------------------------------------------------------------------
(* The repository: histories of at most MaxLog commits out of CommitPool,  *)
(* full hashes of 40 lower-case hex digits, author dates as %aI prints.    *)

Zeros(n) == [i \in 1..n |-> "0"]

CommitPool ==
    { [hash |-> <<"0", "b", "a", "4", "e", "9", "1", "0">> \o Zeros(32), date |-> <<"2", "0", "2", "6", "-", "0", "1", "-", "1", "5", "T", "1", "0", ":", "3", "0", ":", "4", "5", "-", "0", "8", ":", "0", "0">>],
      [hash |-> <<"0", "b", "a", "4", "e", "9", "1", "1">> \o Zeros(32), date |-> <<"2", "0", "2", "6", "-", "0", "1", "-", "1", "5", "T", "1", "3", ":", "1", "5", ":", "2", "3", "-", "0", "5", ":", "0", "0">>],
      [hash |-> <<"a", "b", "c", "1", "2", "3", "4", "0">> \o Zeros(32), date |-> <<"2", "0", "2", "6", "-", "0", "1", "-", "1", "5", "T", "0", "9", ":", "0", "0", ":", "0", "0", "+", "0", "1", ":", "0", "0">>] }

Histories ==
    {h \in UNION {[1..n -> CommitPool] : n \in 0..MaxLog} :
        \A i, j \in 1..Len(h) : i # j => h[i] # h[j]}

RepoStates ==
    {[exists |-> FALSE, commits |-> <<>>]} \cup {[exists |-> TRUE, commits |-> h] : h \in Histories}

Refs == { <<"0", "b", "a", "4", "e", "9", "1">>, <<"0", "B", "A", "4", "E", "9", "1", "1">>, <<"A", "B", "C", "1", "2", "3", "4">>, <<"f", "f", "f", "f", "f", "f", "f">> }

RefLists == UNION {[1..n -> Refs] : n \in 0..MaxRefs}

RepoPaths == {RepoDir, "/nonexistent/path"}

----------------------------------------------------------------------------
(* Journal documents: every sequence of at most MaxLines lines drawn from  *)
(* ParseLines, each line ended by a line feed.                             *)

ParseLines ==
    { <<"#", "#", " ", "S", "e", "s", "s", "i", "o", "n", " ", "1", ":", " ", "A">>,
      <<"#", "#", " ", "S", "e", "s", "s", "i", "o", "n", " ", "0">>,
      <<"#", "#", " ", "S", "e", "s", "s", "i", "o", "n", " ", "1", ":">>,
      <<"#", "#">>,
      <<"S", "e", "s", "s", "i", "o", "n", " ", "3", ":", " ", "C">>,
      <<"x">>,
      <<>> }

RECURSIVE JoinLines(_)
JoinLines(ls) ==
    IF Len(ls) = 0 THEN <<>>
    ELSE ls[1] \o <<"\n">> \o JoinLines(Tail(ls))

Documents == {JoinLines(ls) : ls \in UNION {[1..n -> ParseLines] : n \in 0..MaxLines}}

DatedPath == <<"/", "j", "/", "2", "0", "2", "6", "-", "0", "1", "-", "1", "5", ".", "m", "d">>

NoCall == [op |-> "none"]

InitRepo == [exists |-> FALSE, commits |-> <<>>]

InitParse ==
    /\ filePath = DatedPath
    /\ content \in Documents
    /\ sessions = <<>>
    /\ repo = InitRepo
    /\ call = NoCall
    /\ pc = "read"
    /\ calendar = <<>>
    /\ runs = 0

\* const sessions = parseJournalFile(filePath)
ParseDocument ==
    /\ pc = "read"
    /\ sessions' = parseJournalFile(filePath, content)
    /\ pc' = "parsed"
    /\ UNCHANGED <<filePath, content, repo, call, calendar, runs>>

NextParse == ParseDocument

SpecParse == InitParse /\ [][NextParse]_vars

----------------------------------------------------------------------------
(* Journals on disk for the timing pipeline *)

DatedJournal ==
    JoinLines(<< <<"#", " ", "2", "0", "2", "6", "-", "0", "1", "-", "1", "5", ":", " ", "C", "a", "l", " ", "-", " ", "T">>,
                 <<"#", "#", " ", "S", "e", "s", "s", "i", "o", "n", " ", "1", ":", " ", "A">>,
                 <<"#", "#", "#", " ", "W", "h", "a", "t", " ", "I", " ", "W", "o", "r", "k", "e", "d", " ", "O", "n">>,
                 <<"-", " ", "'", "0", "b", "a", "4", "e", "9", "1", "'", " ", "x", " ", "'", "A", "B", "C", "1", "2", "3", "4", "'">>,
                 <<"#", "#", "#", " ", "L", "e", "a", "r", "n", "i", "n", "g", "s">>,
                 <<"*", "*", "P", ":", "*", "*", " ", "q">>,
                 <<"#", "#", " ", "S", "e", "s", "s", "i", "o", "n", " ", "2", ":", " ", "B">>,
                 <<"<", "!", "-", "-", " ", "s", "e", "s", "s", "i", "o", "n", "-", "t", "i", "m", "e", ":", " ", "1", "0", ":", "3", "0", "-", "1", "2", ":", "4", "5", " ", "-", "-", ">">>,
                 <<"-", " ", "'", "0", "b", "a", "4", "e", "9", "1", "'">>,
                 <<"#", "#", " ", "S", "e", "s", "s", "i", "o", "n", " ", "3">> >>)

UndatedJournal ==
    JoinLines(<< <<"#", "#", " ", "S", "e", "s", "s", "i", "o", "n", " ", "1", ":", " ", "A">>,
                 <<"<", "!", "-", "-", " ", "s", "e", "s", "s", "i", "o", "n", "-", "t", "i", "m", "e", ":", " ", "1", "0", ":", "3", "0", "-", "1", "2", ":", "4", "5", " ", "-", "-", ">">>,
                 <<"-", " ", "'", "A", "B", "C", "1", "2", "3", "4", "'">>,
                 <<"#", "#", " ", "S", "e", "s", "s", "i", "o", "n", " ", "2">>,
                 <<"-", " ", "'", "f", "f", "f", "f", "f", "f", "f", "'", " ", "'", "0", "B", "A", "4", "E", "9", "1", "1", "'">> >>)

JournalFiles ==
    { [path |-> DatedPath, text |-> DatedJournal],
      [path |-> <<"/", "j", "/", "n", "o", "t", "e", "s", ".", "m", "d">>, text |-> UndatedJournal] }

\* a Partial<ReconstructConfig>: the keys it sets and their values
Config(keys, repoPath, pre, post) ==
    [keys |-> keys, repoPath |-> repoPath,
     preCommitBufferMinutes |-> pre, postCommitBufferMinutes |-> post]

Configs ==
    { Config({}, "", 0, 0),
      Config({"preCommitBufferMinutes"}, "", 30, 0),
      Config({"repoPath"}, "/nonexistent/repo", 0, 0),
      Config({"repoPath", "preCommitBufferMinutes", "postCommitBufferMinutes"}, RepoDir, 0, 10) }

Init ==
    /\ \E j \in JournalFiles : filePath = j.path /\ content = j.text
    /\ sessions = <<>>
    /\ repo \in RepoStates
    /\ call = NoCall
    /\ pc = "read"
    /\ calendar = <<>>
    /\ runs = 0

\* sessions[i] = reconstructSessionTiming(sessions[i], config)
ReconstructSession(i, config) ==
    /\ pc = "parsed"
    /\ i \in 1..Len(sessions)
    /\ LET out == reconstructSessionTiming(repo, sessions[i], config)
       IN  /\ call' = [op |-> "reconstructSessionTiming", session |-> sessions[i],
                       config |-> config, repo |-> repo, threw |-> out.threw,
                       value |-> out.value, queries |-> out.queries,
                       timestamps |-> out.timestamps, input |-> out.input]
           /\ sessions' = IF out.threw THEN sessions ELSE [sessions EXCEPT ![i] = out.value]
    /\ UNCHANGED <<filePath, content, repo, pc, calendar, runs>>

\* sessions = reconstructAllSessions(sessions, config)
ReconstructAll(config) ==
    /\ pc = "parsed"
    /\ Len(sessions) > 0
    /\ LET out == reconstructAllSessions(repo, sessions, config)
       IN  /\ call' = [op |-> "reconstructAllSessions", sessions |-> sessions,
                       config |-> config, repo |-> repo, value |-> out]
           /\ sessions' = out
    /\ UNCHANGED <<filePath, content, repo, pc, calendar, runs>>

\* the history changes between two calls (commits land, the clone goes away)
RepoChange(r) ==
    /\ pc = "parsed"
    /\ r # repo
    /\ repo' = r
    /\ call' = NoCall
    /\ UNCHANGED <<filePath, content, sessions, pc, calendar, runs>>

\* a direct call getCommitTimestamps(commits, repoPath)
ResolveCommits(commits, repoPath) ==
    /\ pc = "read"
    /\ LET out == getCommitTimestamps(repo, commits, repoPath)
       IN  call' = [op |-> "getCommitTimestamps", commits |-> commits,
                    repoPath |-> repoPath, repo |-> repo, threw |-> out.threw,
                    value |-> out.value, queries |-> out.queries]
    /\ pc' = "resolved"
    /\ UNCHANGED <<filePath, content, sessions, repo, calendar, runs>>

Next ==
    \/ ParseDocument
    \/ \E i \in 1..3, config \in Configs : ReconstructSession(i, config)
    \/ \E config \in Configs : ReconstructAll(config)
    \/ \E r \in RepoStates : RepoChange(r)
    \/ \E commits \in RefLists, repoPath \in RepoPaths : ResolveCommits(commits, repoPath)

Spec == Init /\ [][Next]_vars

----------------------------------------------------------------------------
(* Vocabulary of the properties *)

IsReconstructCall == call.op = "reconstructSessionTiming"
IsResolverCall == call.op = "getCommitTimestamps"

Timed(session) == session.startTime.def /\ session.endTime.def
Untimed(session) == ~session.startTime.def /\ ~session.endTime.def

\* the repository location a config designates
ConfiguredRepoPath(config) == IF "repoPath" \in config.keys THEN config.repoPath ELSE Cwd

\* the commits a history query at path enumerates; none when the query fails
QueryFails(r, path) == ~(r.exists /\ path = RepoDir)
Enumerated(r, path) == IF QueryFails(r, path) THEN <<>> ELSE r.commits

SameHexDigit(a, b) == LowerChar(a) = LowerChar(b)

\* ref is a case-insensitive prefix of hash
IsPrefixOf(ref, hash) ==
    /\ Len(ref) <= Len(hash)
    /\ \A i \in 1..Len(ref) : SameHexDigit(ref[i], hash[i])

ResolvesIn(ref, log) == \E i \in 1..Len(log) : IsPrefixOf(ref, log[i].hash)

FirstMatch(ref, log) == log[Min({i \in 1..Len(log) : IsPrefixOf(ref, log[i].hash)})]

\* the call filled the timing of an untimed session from commit timestamps
CommitInferred == IsReconstructCall /\ Untimed(call.session) /\ Timed(call.value)

ResolvedInstants == {call.timestamps[i].value.timestamp.ms : i \in 1..Len(call.timestamps)}

----------------------------------------------------------------------------
(* Properties of the timing pipeline, checked under Spec *)

\* C1: every session returned by parseJournalFile, and every result of
\* reconstructSessionTiming on it, has startTime defined exactly when endTime
\* is defined.
C1_TimingBothOrNeither ==
    /\ \A i \in 1..Len(sessions) : sessions[i].startTime.def <=> sessions[i].endTime.def
    /\ IsReconstructCall => (call.value.startTime.def <=> call.value.endTime.def)

C1_Witness ==
    /\ CommitInferred
    /\ \E i \in 1..Len(sessions) : sessions[i].timingSource = "annotation" /\ Timed(sessions[i])
    /\ \E i \in 1..Len(sessions) : Untimed(sessions[i])

\* C2: reconstructSessionTiming on a session that has both startTime and
\* endTime returns it with startTime, endTime, timezone and timingSource
\* unchanged, whatever its commits, the config and the repository are.
C2_TimedSessionKept ==
    (IsReconstructCall /\ Timed(call.session)) =>
        /\ call.value.startTime = call.session.startTime
        /\ call.value.endTime = call.session.endTime
        /\ call.value.timezone = call.session.timezone
        /\ call.value.timingSource = call.session.timingSource

\* a timed session whose commits resolve in the configured repository
C2_Witness ==
    /\ IsReconstructCall
    /\ Timed(call.session)
    /\ \E k \in 1..Len(call.session.commits) :
          ResolvesIn(call.session.commits[k],
                     Enumerated(call.repo, ConfiguredRepoPath(call.config)))

\* C3: when an untimed session has a commit reference and the resolver
\* returns a non-empty mapping, startTime is the minimum resolved timestamp
\* minus preCommitBufferMinutes and endTime the maximum plus
\* postCommitBufferMinutes, an omitted buffer being 15 (pre) or 5 (post).
C3_BuffersAroundRange ==
    (IsReconstructCall /\ Untimed(call.session) /\ Len(call.session.commits) >= 1
        /\ Len(call.timestamps) > 0) =>
        LET pre == IF "preCommitBufferMinutes" \in call.config.keys
                   THEN call.config.preCommitBufferMinutes ELSE 15
            post == IF "postCommitBufferMinutes" \in call.config.keys
                    THEN call.config.postCommitBufferMinutes ELSE 5
        IN  /\ call.value.startTime = DateOf(Min(ResolvedInstants) - pre * 60000)
            /\ call.value.endTime = DateOf(Max(ResolvedInstants) + post * 60000)

\* two commits at different instants, one buffer omitted and one given
C3_Witness ==
    /\ CommitInferred
    /\ Cardinality(ResolvedInstants) = 2
    /\ call.config.keys = {"preCommitBufferMinutes"}

\* C4: whenever reconstructSessionTiming fills the timing from commit
\* timestamps, the returned session has timingSource = "commits" and the
\* timezone reported for the commit range.
C4_CommitInferredTagged ==
    CommitInferred =>
        /\ call.value.timingSource = "commits"
        /\ call.value.timezone = getSessionTimeRange(call.timestamps).timezone

\* C5: when an untimed session has no commit references, or none of them
\* resolves (the repository location may not exist), the returned session
\* still has no startTime and no endTime and timingSource "inferred".
C5_UnresolvedStaysInferred ==
    (IsReconstructCall /\ Untimed(call.session)
        /\ \A k \in 1..Len(call.session.commits) :
              ~ResolvesIn(call.session.commits[k],
                          Enumerated(call.repo, ConfiguredRepoPath(call.config)))) =>
        /\ ~call.value.startTime.def
        /\ ~call.value.endTime.def
        /\ call.value.timingSource = "inferred"

\* references that match no commit of a repository that has commits
C5_Witness ==
    /\ IsReconstructCall
    /\ Untimed(call.session)
    /\ Len(call.session.commits) >= 1
    /\ Len(Enumerated(call.repo, ConfiguredRepoPath(call.config))) >= 1
    /\ Untimed(call.value)

\* C6: getCommitTimestamps never raises: when the history query fails it
\* returns an empty mapping, and reconstructSessionTiming then completes
\* with the session as it was.
C6_ResolverNeverRaises ==
    /\ IsResolverCall =>
          /\ ~call.threw
          /\ QueryFails(call.repo, call.repoPath) => call.value = <<>>
    /\ (IsReconstructCall /\ QueryFails(call.repo, ConfiguredRepoPath(call.config))) =>
          /\ ~call.threw
          /\ call.value = call.session

\* the reconstructor issued a history query and the query failed
C6_Witness ==
    /\ IsReconstructCall
    /\ call.queries = 1
    /\ QueryFails(call.repo, ConfiguredRepoPath(call.config))

\* C7: the mapping getCommitTimestamps returns has as keys exactly the
\* requested references, as spelled, that are a case-insensitive prefix of
\* some enumerated full hash; each entry's hash is its key and its timestamp
\* that of the first such commit enumerated; no request, no entry.
C7_KeysAreResolvableRequests ==
    IsResolverCall =>
        LET log == Enumerated(call.repo, call.repoPath)
            requested == {call.commits[k] : k \in 1..Len(call.commits)}
        IN  /\ MapKeys(call.value) = {ref \in requested : ResolvesIn(ref, log)}
            /\ Cardinality(MapKeys(call.value)) = Len(call.value)
            /\ \A i \in 1..Len(call.value) :
                  /\ call.value[i].value.hash = call.value[i].key
                  /\ call.value[i].value.timestamp
                        = newDate(FirstMatch(call.value[i].key, log).date)
            /\ Len(call.commits) = 0 => call.value = <<>>

\* an upper-case reference resolved next to a reference that two
\* enumerated commits match
C7_Witness ==
    /\ IsResolverCall
    /\ Len(call.value) = 2
    /\ \E i \in 1..2 : call.value[i].key[2] \in {"A", "B", "C", "D", "E", "F"}
    /\ \E k \in 1..Len(call.commits) :
          Cardinality({i \in 1..Len(call.repo.commits) :
                          IsPrefixOf(call.commits[k], call.repo.commits[i].hash)}) = 2

----------------------------------------------------------------------------
(* Properties of the parser, checked under SpecParse *)

\* the text of the line that starts at index p
LineAt(c, p) == SubSeq(c, p, LineEnd(c, p) - 1)

\* where the lines of the document start that match ## Session <digits>
HeadingLineStarts(c) ==
    {p \in 1..Len(c) : AtLineStart(c, p) /\ SessionHeaderAt(LineAt(c, p), 1)}

\* the blocks of the document: from a heading line up to the next one
HeadingBlocks(c) ==
    LET starts == SortedSeq(HeadingLineStarts(c))
        n == Len(starts)
    IN  [k \in 1..n |->
            SubSeq(c, starts[k], IF k < n THEN starts[k + 1] - 1 ELSE Len(c))]

\* C8: parseJournalFile returns one session per line that matches
\* ## Session <digits>, in order, each built from the block from that line
\* up to the next such line; no such line, no session.
C8_OneSessionPerHeadingLine ==
    pc = "parsed" =>
        LET blocks == HeadingBlocks(content)
        IN  /\ Len(sessions) = Len(blocks)
            /\ \A k \in 1..Len(blocks) :
                  sessions[k] = sessionFromBlock(filePath, sessions[k].date,
                                    sessions[k].project, blocks[k], k - 1)

\* C9: within one parse every sessionNumber is a positive integer and no
\* two sessions share a sessionNumber.
C9_SessionNumbersPositiveUnique ==
    pc = "parsed" =>
        /\ \A i \in 1..Len(sessions) : sessions[i].sessionNumber >= 1
        /\ \A i, j \in 1..Len(sessions) :
              i # j => sessions[i].sessionNumber # sessions[j].sessionNumber

\* the theme the heading line alone spells: the trimmed text after
\* Session <n>:, "(no theme)" without a colon
HeadingLineTheme(line) ==
    LET colon == SkipDigits(line, SessionHeaderDigitsAt(line, 1))
    IN  IF StartsWithAt(line, colon, <<":">>)
        THEN trim(SubSeq(line, colon + 1, Len(line)))
        ELSE NoTheme

\* C10: a session's theme is the trimmed text after Session <n>: on the
\* heading line itself, "(no theme)" when the heading has no colon; text of
\* later lines never becomes the theme.  (A heading that ends at its colon
\* may read as the empty theme or as "(no theme)".)
C10_ThemeFromHeadingLine ==
    pc = "parsed" =>
        LET blocks == splitIntoSessions(content)
        IN  \A k \in 1..Len(blocks) :
               SessionHeaderAt(LineAt(blocks[k], 1), 1) =>
                   LET spelled == HeadingLineTheme(LineAt(blocks[k], 1))
                   IN  \/ sessions[k].theme = spelled
                       \/ spelled = <<>> /\ sessions[k].theme = NoTheme

----------------------------------------------------------------------------
(* Journals for the document-level fields: a file name with or without a   *)
(* date, at most MaxHeadLines lines of preamble and one session heading.   *)

MaxHeadLines == 2

HeadingPaths ==
    { DatedPath, <<"/", "j", "/", "2", "0", "2", "6", "-", "0", "1", "-", "1", "6", "-", "n", "o", "t", "e", "s", ".", "m", "d">>, <<"/", "j", "/", "n", "o", "t", "e", "s", ".", "m", "d">> }

HeadingLines ==
    { <<"#", " ", "2", "0", "2", "6", "-", "0", "1", "-", "1", "7", ":", " ", "C", "a", "l", " ", "-", " ", "T">>,
      <<"#", " ", " ", "2", "0", "2", "6", "-", "0", "1", "-", "1", "8">>,
      <<"#", " ", "2", "0", "2", "6", "-", "0", "1", "-", "1", "9", ":", " ", "-", " ", "T">>,
      <<"#", " ", "2", "0", "2", "6", "-", "0", "1", "-", "2", "0", ":">>,
      <<"#">>,
      <<"2", "0", "2", "6", "-", "0", "1", "-", "2", "1", ":", " ", "P">>,
      <<"x">> }

HeadingDocuments ==
    {JoinLines(ls) \o JoinLines(<< <<"#", "#", " ", "S", "e", "s", "s", "i", "o", "n", " ", "1", ":", " ", "A">> >>) :
        ls \in UNION {[1..n -> HeadingLines] : n \in 0..MaxHeadLines}}

InitHeading ==
    /\ filePath \in HeadingPaths
    /\ content \in HeadingDocuments
    /\ sessions = <<>>
    /\ repo = InitRepo
    /\ call = NoCall
    /\ pc = "read"
    /\ calendar = <<>>
    /\ runs = 0

SpecHeading == InitHeading /\ [][NextParse]_vars

----------------------------------------------------------------------------
(* Journals for the block-level fields: at most MaxBlockLines lines out of *)
(* BlockLines, in a file named after its date or not.                      *)

MaxBlockLines == 3

BlockPaths == { DatedPath, <<"/", "j", "/", "n", "o", "t", "e", "s", ".", "m", "d">> }

BlockLines ==
    { <<"#", "#", " ", "S", "e", "s", "s", "i", "o", "n", " ", "1", ":", " ", "A">>,
      <<"#", "#", " ", "S", "e", "s", "s", "i", "o", "n", " ", "2">>,
      <<"<", "!", "-", "-", " ", "s", "e", "s", "s", "i", "o", "n", "-", "t", "i", "m", "e", ":", " ", "1", "0", ":", "3", "0", "-", "1", "2", ":", "4", "5", " ", "-", "-", ">">>,
      <<"<", "!", "-", "-", "s", "e", "s", "s", "i", "o", "n", "-", "t", "i", "m", "e", ":", "0", "9", ":", "0", "5", "-", "0", "9", ":", "5", "0", "-", "-", ">">>,
      <<"<", "!", "-", "-", " ", "s", "e", "s", "s", "i", "o", "n", "-", "t", "i", "m", "e", ":", " ", "9", ":", "3", "0", "-", "1", "2", ":", "4", "5", " ", "-", "-", ">">>,
      <<"<", "!", "-", "-", " ", "s", "e", "s", "s", "i", "o", "n", "-", "t", "i", "m", "e", ":", " ", "2", "5", ":", "0", "0", "-", "2", "6", ":", "7", "0", " ", "-", "-", ">">>,
      <<"-", " ", "'", "0", "b", "a", "4", "e", "9", "1", "'", " ", "x", " ", "'", "0", "B", "A", "4", "E", "9", "1", "'", " ", "'", "0", "b", "a", "4", "e", "9", "1", "'">>,
      <<"'", "a", "b", "c", "1", "2", "3", "'", " ", "'", "g", "h", "i", "j", "k", "l", "m", "'", " ", "'">> \o <<"0", "b", "a", "4", "e", "9", "1", "0">> \o Zeros(33) \o <<"'", " ", "'", "A", "B", "C", "1", "2", "3", "4", "'">>,
      <<"'", "a", "b", "c", "1", "2", "3", "4", "'", "0", "b", "a", "4", "e", "9", "1", "'">> }

BlockDocuments ==
    {JoinLines(ls) : ls \in UNION {[1..n -> BlockLines] : n \in 0..MaxBlockLines}}

InitBlock ==
    /\ filePath \in BlockPaths
    /\ content \in BlockDocuments
    /\ sessions = <<>>
    /\ repo = InitRepo
    /\ call = NoCall
    /\ pc = "read"
    /\ calendar = <<>>
    /\ runs = 0

SpecBlock == InitBlock /\ [][NextParse]_vars

----------------------------------------------------------------------------
(* Session texts for extractSection: at most MaxSectionLines lines out of  *)
(* SectionLines.                                                           *)

MaxSectionLines == 3

SectionLines ==
    { <<"#", "#", " ", "S", "e", "s", "s", "i", "o", "n", " ", "1", ":", " ", "A">>,
      <<"#", "#", "#", " ", "L", "e", "a", "r", "n", "i", "n", "g", "s">>,
      <<"#", "#", "#", " ", "L", "E", "A", "R", "N", "I", "N", "G", "S">>,
      <<"#", "#", "#", " ", " ", "W", "h", "a", "t", " ", "I", " ", "W", "o", "r", "k", "e", "d", " ", "O", "n">>,
      <<"#", "#", "#", "#", " ", "D", "e", "e", "p">>,
      <<"#", "#", "#", " ", "O", "t", "h", "e", "r">>,
      <<"#", "#", " ", "S", "e", "s", "s", "i", "o", "n", " ", "2">>,
      <<"-", " ", "a">>,
      <<"x">> }

SectionNames == { <<"L", "e", "a", "r", "n", "i", "n", "g", "s">>, <<"W", "h", "a", "t", " ", "I", " ", "W", "o", "r", "k", "e", "d", " ", "O", "n">> }

SectionTexts ==
    {JoinLines(ls) : ls \in UNION {[1..n -> SectionLines] : n \in 0..MaxSectionLines}}

InitSection ==
    /\ filePath = DatedPath
    /\ content \in SectionTexts
    /\ sessions = <<>>
    /\ repo = InitRepo
    /\ call = NoCall
    /\ pc = "read"
    /\ calendar = <<>>
    /\ runs = 0

\* const section = extractSection(sessionContent, sectionName)
ExtractSection(sectionName) ==
    /\ pc = "read"
    /\ call' = [op |-> "extractSection", sessionContent |-> content,
                sectionName |-> sectionName,
                value |-> extractSection(content, sectionName)]
    /\ pc' = "done"
    /\ UNCHANGED <<filePath, content, sessions, repo, calendar, runs>>

NextSection == \E sectionName \in SectionNames : ExtractSection(sectionName)

SpecSection == InitSection /\ [][NextSection]_vars

----------------------------------------------------------------------------
(* Sections for extractListItems: the heading line and at most             *)
(* MaxItemLines lines out of ItemLines.                                    *)

MaxItemLines == 3

ItemLines ==
    { <<"1", ".", " ", "a">>,
      <<"2", ".", " ", "*", "*", "b", "*", "*", " ", "c">>,
      <<"-", " ", "c">>,
      <<"*", " ", "'", "d", "'">>,
      <<"*", "*", "c", "*", "*">>,
      <<"*", "*", "f", ":", "*", "*", " ", "g">>,
      <<"1", ".">>,
      <<"x">> }

ItemSections ==
    {JoinLines(<< <<"#", "#", "#", " ", "L", "e", "a", "r", "n", "i", "n", "g", "s">> >>) \o JoinLines(ls) :
        ls \in UNION {[1..n -> ItemLines] : n \in 0..MaxItemLines}}

InitItems ==
    /\ filePath = DatedPath
    /\ content \in ItemSections
    /\ sessions = <<>>
    /\ repo = InitRepo
    /\ call = NoCall
    /\ pc = "read"
    /\ calendar = <<>>
    /\ runs = 0

\* return extractListItems(section)
ExtractListItems ==
    /\ pc = "read"
    /\ call' = [op |-> "extractListItems", section |-> content,
                value |-> extractListItems(content)]
    /\ pc' = "done"
    /\ UNCHANGED <<filePath, content, sessions, repo, calendar, runs>>

NextItems == ExtractListItems

SpecItems == InitItems /\ [][NextItems]_vars

----------------------------------------------------------------------------
(* Maps for getSessionTimeRange: at most MaxRefs entries under distinct    *)
(* keys, their data as the resolver builds them from a log line.           *)

RangeDates ==
    {c.date : c \in CommitPool} \cup { <<"2", "0", "2", "6", "-", "0", "1", "-", "1", "5", "T", "1", "8", ":", "3", "0", ":", "4", "5", "+", "0", "0", ":", "0", "0">> }

RangeData ==
    {[timestamp |-> newDate(date), timezone |-> TimezoneOf(date)] : date \in RangeDates}

TimestampMaps ==
    {m \in UNION {[1..n -> [key : Refs, data : RangeData]] : n \in 0..MaxRefs} :
        \A i, j \in 1..Len(m) : i # j => m[i].key # m[j].key}

\* the Map of an entry list: key -> {hash, timestamp, timezone}
MapOf(m) ==
    [i \in 1..Len(m) |->
        [key |-> m[i].key,
         value |-> [hash |-> m[i].key, timestamp |-> m[i].data.timestamp,
                    timezone |-> m[i].data.timezone]]]

InitRange ==
    /\ filePath = DatedPath
    /\ content = <<>>
    /\ sessions = <<>>
    /\ repo = InitRepo
    /\ call = NoCall
    /\ pc = "read"
    /\ calendar = <<>>
    /\ runs = 0

\* const range = getSessionTimeRange(timestamps)
TimeRange(m) ==
    /\ pc = "read"
    /\ call' = [op |-> "getSessionTimeRange", commitTimestamps |-> MapOf(m),
                value |-> getSessionTimeRange(MapOf(m))]
    /\ pc' = "done"
    /\ UNCHANGED <<filePath, content, sessions, repo, calendar, runs>>

NextRange == \E m \in TimestampMaps : TimeRange(m)

SpecRange == InitRange /\ [][NextRange]_vars

----------------------------------------------------------------------------
(* Claims about the fields the parser fills *)

\* the lines of a text: what lies between its line feeds
Lines(s) == split(s, "\n")

\* a line that reads `#`, blanks, YYYY-MM-DD: index of the date in it, or 0
IsBlank(c) == c \in {" ", "\t"}
DateHeadingLineDate(line) ==
    LET stop == {q \in 2..Len(line) : ~IsBlank(line[q])}
    IN  IF Len(line) >= 1 /\ line[1] = "#" /\ stop # {} /\ Min(stop) > 2
           /\ DateShapeAt(line, Min(stop))
        THEN Min(stop) ELSE 0

\* the first line of the document that is such a heading, <<>> if none
FirstDateHeading(c) ==
    LET ls == Lines(c)
        hits == {i \in 1..Len(ls) : DateHeadingLineDate(ls[i]) # 0}
    IN  IF hits = {} THEN <<>> ELSE ls[Min(hits)]

\* the first YYYY-MM-DD in a file name, <<>> if it holds none
DateInFileName(name) ==
    LET hits == {p \in 1..Len(name) : DateShapeAt(name, p)}
    IN  IF hits = {} THEN <<>> ELSE SubSeq(name, Min(hits), Min(hits) + 9)

ClaimedDate ==
    LET inName == DateInFileName(basename(filePath))
        heading == FirstDateHeading(content)
    IN  IF inName # <<>> THEN inName
        ELSE IF heading # <<>>
        THEN LET q == DateHeadingLineDate(heading) IN SubSeq(heading, q, q + 9)
        ELSE Unknown

\* C11: every session's date is the YYYY-MM-DD of the file name when the file
\* name contains one, otherwise the date of the first top-level heading line
\* `# YYYY-MM-DD...`, otherwise "unknown"; it is never empty.
C11_DateFromNameThenHeading ==
    pc = "parsed" =>
        \A k \in 1..Len(sessions) :
            sessions[k].date = ClaimedDate /\ sessions[k].date # <<>>

\* the project segment of a date heading line: the text between
\* `# YYYY-MM-DD:` and the first hyphen or the line end, trimmed
ProjectSegment(line) ==
    LET q == DateHeadingLineDate(line)
        stop == {k \in (q + 11)..Len(line) : line[k] = "-"}
        e == IF stop = {} THEN Len(line) + 1 ELSE Min(stop)
    IN  IF q # 0 /\ StartsWithAt(line, q + 10, <<":">>)
        THEN trim(SubSeq(line, q + 11, e - 1)) ELSE <<>>

ClaimedProject ==
    LET ls == Lines(content)
        hits == {i \in 1..Len(ls) :
                    DateHeadingLineDate(ls[i]) # 0
                    /\ StartsWithAt(ls[i], DateHeadingLineDate(ls[i]) + 10, <<":">>)}
    IN  IF hits = {} \/ ProjectSegment(ls[Min(hits)]) = <<>> THEN General
        ELSE ProjectSegment(ls[Min(hits)])

\* C12: every session's project is the trimmed text between `# YYYY-MM-DD:`
\* and the first hyphen or line end of the top-level heading line, "General"
\* when the heading has no project segment, and never the empty string.
C12_ProjectFromHeadingLine ==
    pc = "parsed" =>
        \A k \in 1..Len(sessions) :
            sessions[k].project = ClaimedProject /\ sessions[k].project # <<>>

AllSpace(s, a, b) == \A i \in a..b : IsSpace(s[i])

\* a marker <!-- session-time: HH:MM-HH:MM --> opens at p and its first
\* HH:MM stands at t
MarkerAt(s, p, t) ==
    /\ IsHHMM(s, t) /\ StartsWithAt(s, t + 5, <<"-">>) /\ IsHHMM(s, t + 6)
    /\ \E a \in (p + 4)..(t - 13) :
          /\ StartsWithAt(s, a, <<"s", "e", "s", "s", "i", "o", "n", "-", "t", "i", "m", "e", ":">>)
          /\ AllSpace(s, p + 4, a - 1)
          /\ AllSpace(s, a + 13, t - 1)
    /\ \E z \in (t + 11)..Len(s) : StartsWithAt(s, z, <<"-", "-", ">">>) /\ AllSpace(s, t + 11, z - 1)

MarkerOpenings(s) ==
    {p \in 1..Len(s) : StartsWithAt(s, p, <<"<", "!", "-", "-">>) /\ \E t \in p..Len(s) : MarkerAt(s, p, t)}

\* where the first HH:MM of the first marker of the block stands
FirstMarkerTimes(s) ==
    LET p == Min(MarkerOpenings(s)) IN CHOOSE t \in p..Len(s) : MarkerAt(s, p, t)

\* the instant at which the local wall clock shows hhmm on the given date;
\* the Invalid Date when the date or the time is none
ClockInstant(date, hhmm) ==
    IF /\ Len(date) = 10 /\ DateShapeAt(date, 1)
       /\ TwoDigits(date, 6) \in 1..12 /\ TwoDigits(date, 9) \in 1..31
       /\ TwoDigits(hhmm, 1) \in 0..23 /\ TwoDigits(hhmm, 4) \in 0..59
    THEN DateOf(((parseInt(SubSeq(date, 1, 4)) - 2026) * 372
                    + (TwoDigits(date, 6) - 1) * 31 + TwoDigits(date, 9) - 1) * MsPerDay
                + (TwoDigits(hhmm, 1) * 60 + TwoDigits(hhmm, 4) - LocalOffsetMinutes)
                    * MsPerMinute)
    ELSE InvalidDate

\* C13: a session whose block holds a marker <!-- session-time: HH:MM-HH:MM -->
\* has startTime and endTime equal to its date at the first and the second
\* HH:MM and timingSource "annotation"; a session whose block holds none has
\* both unset and timingSource "inferred"; so timingSource is "annotation"
\* exactly when the parsed session has timing.
C13_AnnotationGivesTiming ==
    pc = "parsed" =>
        LET blocks == splitIntoSessions(content)
        IN  \A k \in 1..Len(sessions) :
              /\ IF MarkerOpenings(blocks[k]) # {}
                 THEN LET t == FirstMarkerTimes(blocks[k])
                      IN  /\ sessions[k].startTime =
                                ClockInstant(sessions[k].date, SubSeq(blocks[k], t, t + 4))
                          /\ sessions[k].endTime =
                                ClockInstant(sessions[k].date, SubSeq(blocks[k], t + 6, t + 10))
                          /\ sessions[k].timingSource = "annotation"
                 ELSE /\ sessions[k].startTime = Undefined
                      /\ sessions[k].endTime = Undefined
                      /\ sessions[k].timingSource = "inferred"
              /\ sessions[k].timingSource = "annotation" <=> Timed(sessions[k])

\* a document with an annotated session whose two instants are real and
\* differ, and a session without a marker
C13_Witness ==
    /\ pc = "parsed"
    /\ \E i, j \in 1..Len(sessions) :
          /\ sessions[i].timingSource = "annotation"
          /\ sessions[i].startTime.valid /\ sessions[i].endTime.valid
          /\ sessions[i].startTime.ms < sessions[i].endTime.ms
          /\ sessions[j].timingSource = "inferred"
          /\ Untimed(sessions[j])

\* the tokens of 7 to 40 hex characters that stand between two backticks,
\* as <<opening, closing>> positions
BacktickedHex(s) ==
    LET ticks == {p \in 1..Len(s) : s[p] = "'"}
    IN  {w \in ticks \X ticks :
            /\ w[2] - w[1] - 1 \in 7..40
            /\ \A i \in (w[1] + 1)..(w[2] - 1) : IsHex(s[i])}

\* the distinct such tokens, ordered by first occurrence
ClaimedCommits(s) ==
    LET opens == SortedSeq({w[1] : w \in BacktickedHex(s)})
        token(p) == LET w == CHOOSE w \in BacktickedHex(s) : w[1] = p
                    IN  SubSeq(s, p + 1, w[2] - 1)
    IN  Dedup([i \in 1..Len(opens) |-> token(opens[i])])

\* C14: the commits of a parsed session are exactly the distinct tokens of 7
\* to 40 hex characters enclosed in backticks in its block, each once, in
\* the order of their first occurrence.
C14_CommitsAreBacktickedHex ==
    pc = "parsed" =>
        LET blocks == splitIntoSessions(content)
        IN  \A k \in 1..Len(sessions) : sessions[k].commits = ClaimedCommits(blocks[k])

----------------------------------------------------------------------------
(* Claims about sections and list items *)

\* number of # a line starts with
HeadingLevel(line) ==
    LET stop == {q \in 1..Len(line) : line[q] # "#"}
    IN  IF stop = {} THEN Len(line) ELSE Min(stop) - 1

EqualIgnoringCase(a, b) == toLowerCase(a) = toLowerCase(b)

\* the line is the level-3 heading of the section called name
IsSectionHeading(line, name) ==
    /\ HeadingLevel(line) = 3
    /\ Len(line) >= 4 /\ IsBlank(line[4])
    /\ EqualIgnoringCase(trim(SubSeq(line, 4, Len(line))), name)

\* from the first heading line of the section up to the next line that is a
\* level-2 or level-3 heading, or to the end of the text
ClaimedSection(c, name) ==
    LET starts == {p \in 1..Len(c) : AtLineStart(c, p) /\ IsSectionHeading(LineAt(c, p), name)}
    IN  IF starts = {} THEN NoSection
        ELSE LET p == Min(starts)
                 stops == {q \in (p + 1)..Len(c) :
                              AtLineStart(c, q) /\ HeadingLevel(LineAt(c, q)) \in {2, 3}}
             IN  SubSeq(c, p, IF stops = {} THEN Len(c) ELSE Min(stops) - 1)

\* C15: extractSection returns the text from the level-3 heading of the
\* requested name (case ignored) up to the next level-2 or level-3 heading
\* or the end of the text, deeper headings and their content included, and
\* not-found when there is no such heading.
C15_SectionUpToNextHeading ==
    call.op = "extractSection" =>
        call.value = ClaimedSection(call.sessionContent, call.sectionName)

\* index after the marker `<n>.` of a numbered line, 0 for other lines
NumberedLineMarker(line) ==
    LET q == Min({k \in 1..(Len(line) + 1) : k > Len(line) \/ ~IsBlank(line[k])})
        d == SkipDigits(line, q)
    IN  IF d > q /\ StartsWithAt(line, d, <<".">>) THEN d + 1 ELSE 0

\* index after the marker `-` or `*` of a bulleted line, 0 for other lines
BulletLineMarker(line) ==
    LET q == Min({k \in 1..(Len(line) + 1) : k > Len(line) \/ ~IsBlank(line[k])})
    IN  IF q <= Len(line) /\ line[q] \in {"-", "*"} THEN q + 1 ELSE 0

\* the text of an item line after its marker: a blank, then the text
ItemText(line, m) ==
    IF m # 0 /\ m <= Len(line) /\ IsBlank(line[m]) THEN trim(SubSeq(line, m, Len(line)))
    ELSE <<>>

\* the cleaned texts of the numbered (or bulleted) lines, in document order
ClaimedItems(s, numbered) ==
    LET ls == Lines(s)
        text(l) == ItemText(l, IF numbered THEN NumberedLineMarker(l) ELSE BulletLineMarker(l))
        items == SelectSeq(ls, LAMBDA l : text(l) # <<>>)
    IN  [i \in 1..Len(items) |-> cleanItem(text(items[i]))]

\* the text a line shows in bold at its start, <<>> for other lines
BoldLineText(line) ==
    LET t == trim(line)
        e == SkipUntil(t, 3, "*")
    IN  IF StartsWithAt(t, 1, <<"*", "*">>) /\ e > 3 /\ StartsWithAt(t, e, <<"*", "*">>)
        THEN trim(SubSeq(t, 3, e - 1)) ELSE <<>>

\* the line is nothing but **text**
IsBoldOnlyLine(line) ==
    LET t == trim(line)
    IN  BoldLineText(line) # <<>> /\ SkipUntil(t, 3, "*") + 1 = Len(t)

\* C16: extractListItems returns the numbered items in document order, then
\* the bulleted items in document order, then the captured bold lines,
\* however the three interleave; a section without items yields the empty
\* list.
C16_NumberedThenBulletsThenBold ==
    call.op = "extractListItems" =>
        LET listed == ClaimedItems(call.section, TRUE) \o ClaimedItems(call.section, FALSE)
            ls == Lines(call.section)
            bold == {BoldLineText(ls[i]) : i \in 1..Len(ls)} \ {<<>>}
        IN  /\ Len(call.value) >= Len(listed)
            /\ SubSeq(call.value, 1, Len(listed)) = listed
            /\ \A i \in (Len(listed) + 1)..Len(call.value) : call.value[i] \in bold

\* C17: a bold line becomes an item only when the line is nothing but
\* **text** and its text is not contained in an item captured before it.
C17_BoldOnlyLinesNotYetCaptured ==
    call.op = "extractListItems" =>
        LET ls == Lines(call.section)
            listed == Len(ListMatchesFrom(call.section, 1, TRUE))
                        + Len(ListMatchesFrom(call.section, 1, FALSE))
            boldOnly == {BoldLineText(ls[i]) : i \in {j \in 1..Len(ls) : IsBoldOnlyLine(ls[j])}}
        IN  \A i \in (listed + 1)..Len(call.value) :
               /\ call.value[i] \in boldOnly
               /\ \A j \in 1..(i - 1) : ~includes(call.value[j], call.value[i])

----------------------------------------------------------------------------
(* Claims about the time range and the reconstructor's frame *)

\* C18: over a non-empty mapping getSessionTimeRange returns the minimum and
\* the maximum of the mapped timestamps (earliest <= latest) and the
\* timezone of an entry whose timestamp is the minimum; over an empty
\* mapping it returns null, null and the default zone.
C18_RangeIsMinMax ==
    call.op = "getSessionTimeRange" =>
        LET m == call.commitTimestamps
            instants == {m[i].value.timestamp.ms : i \in 1..Len(m)}
        IN  IF Len(m) = 0
            THEN /\ call.value.earliest = Undefined
                 /\ call.value.latest = Undefined
                 /\ call.value.timezone = DEFAULT_TIMEZONE
            ELSE /\ call.value.earliest = DateOf(Min(instants))
                 /\ call.value.latest = DateOf(Max(instants))
                 /\ call.value.earliest.ms <= call.value.latest.ms
                 /\ \E i \in 1..Len(m) :
                       /\ m[i].value.timestamp = call.value.earliest
                       /\ m[i].value.timezone = call.value.timezone

\* two entries in different zones, the later instant listed first
C18_Witness ==
    /\ call.op = "getSessionTimeRange"
    /\ Len(call.commitTimestamps) = 2
    /\ call.commitTimestamps[2].value.timestamp.ms < call.commitTimestamps[1].value.timestamp.ms
    /\ call.commitTimestamps[2].value.timezone # call.commitTimestamps[1].value.timezone
    /\ call.value.timezone = call.commitTimestamps[2].value.timezone

\* C19: once a session has both startTime and endTime, a further
\* reconstruction, with any config and after any change of the repository,
\* leaves its startTime, endTime and timezone as they are.
C19_TimedSessionsStayAsTheyAre ==
    [][\A i \in 1..Len(sessions) :
          Timed(sessions[i]) =>
              /\ Len(sessions') = Len(sessions)
              /\ sessions'[i].startTime = sessions[i].startTime
              /\ sessions'[i].endTime = sessions[i].endTime
              /\ sessions'[i].timezone = sessions[i].timezone]_vars

\* a second call on a session that was timed from its commits, made when the
\* configured repository no longer resolves any of them
C19_Witness ==
    /\ IsReconstructCall
    /\ Timed(call.session)
    /\ call.session.timingSource # "annotation"
    /\ \A k \in 1..Len(call.session.commits) :
          ~ResolvesIn(call.session.commits[k],
                      Enumerated(call.repo, ConfiguredRepoPath(call.config)))

\* the fields of a session other than its timing
Description(session) ==
    <<session.date, session.sessionNumber, session.project, session.theme,
      session.commits, session.outcomes, session.learnings, session.sourceFile>>

\* C20: reconstructSessionTiming and reconstructAllSessions return every
\* session with its date, sessionNumber, project, theme, commits, outcomes,
\* learnings and sourceFile as given, leave the argument as it was, and the
\* batch form returns as many sessions as it was given, in the same order.
C20_OnlyTimingChanges ==
    /\ IsReconstructCall =>
          /\ Description(call.value) = Description(call.session)
          /\ call.input = call.session
    /\ call.op = "reconstructAllSessions" =>
          /\ Len(call.value) = Len(call.sessions)
          /\ \A i \in 1..Len(call.sessions) :
                Description(call.value[i]) = Description(call.sessions[i])

\* a batch of three sessions of which one got its timing from commits and
\* one stayed without timing
C20_Witness ==
    /\ call.op = "reconstructAllSessions"
    /\ Len(call.sessions) = 3
    /\ \E i, j \in 1..3 :
          /\ Untimed(call.sessions[i]) /\ Timed(call.value[i])
          /\ Untimed(call.sessions[j]) /\ Untimed(call.value[j])

----------------------------------------------------------------------------
(* Calendar event creator                                                  *)

FLOW_COLOR_ID == "5"

DigitString == <<"0", "1", "2", "3", "4", "5", "6", "7", "8", "9">>

\* `${n}` for a number n >= 0
RECURSIVE NumberToString(_)
NumberToString(n) ==
    IF n < 10 THEN <<DigitString[n + 1]>>
    ELSE NumberToString(n \div 10) \o <<DigitString[(n % 10) + 1]>>

\* String(n).padStart(width, "0")
PadStart(n, width) ==
    LET s == NumberToString(n)
    IN  IF Len(s) >= width THEN s ELSE Zeros(width - Len(s)) \o s

\* Date.prototype.toISOString of a valid Date: YYYY-MM-DDTHH:mm:ss.sssZ in UTC
\* (months of 31 days, as newDate counts them)
toISOString(d) ==
    LET days == d.ms \div MsPerDay
        rest == d.ms % MsPerDay
        year == 2026 + (days \div 372)
        month == ((days % 372) \div 31) + 1
        day == ((days % 372) % 31) + 1
        hour == rest \div (60 * MsPerMinute)
        minute == (rest \div MsPerMinute) % 60
        second == (rest \div 1000) % 60
        milli == rest % 1000
    IN  PadStart(year, 4) \o <<"-">> \o PadStart(month, 2) \o <<"-">> \o PadStart(day, 2)
            \o <<"T">> \o PadStart(hour, 2) \o <<":">> \o PadStart(minute, 2) \o <<":">>
            \o PadStart(second, 2) \o <<".">> \o PadStart(milli, 3) \o <<"Z">>

\* lines.join(sep)
RECURSIVE join(_, _)
join(lines, sep) ==
    IF Len(lines) = 0 THEN <<>>
    ELSE IF Len(lines) = 1 THEN lines[1]
    ELSE lines[1] \o sep \o join(Tail(lines), sep)

\* items.slice(0, n)
slice(items, n) == SubSeq(items, 1, Min({n, Len(items)}))

formatSummary(session) ==
    LET theme == IF session.theme # NoTheme THEN session.theme
                 ELSE <<"S", "e", "s", "s", "i", "o", "n", " ">> \o NumberToString(session.sessionNumber)
    IN  <<"F", "l", "o", "w", ":", " ">> \o session.project \o <<" ", "-", " ">> \o theme

\* the lines of one block of the description: heading, first n items as
\* bullets, the count of the rest, an empty line
DescriptionBlock(heading, items, n) ==
    IF Len(items) = 0 THEN <<>>
    ELSE <<heading>>
            \o [i \in 1..Len(slice(items, n)) |-> <<"-", " ">> \o items[i]]
            \o (IF Len(items) > n
                THEN << <<"-", " ", ".", ".", ".", " ", "a", "n", "d", " ">> \o NumberToString(Len(items) - n) \o <<" ", "m", "o", "r", "e">> >>
                ELSE <<>>)
            \o << <<>> >>

formatDescription(session) ==
    LET lines ==
            DescriptionBlock(<<"*", "*", "O", "u", "t", "c", "o", "m", "e", "s", ":", "*", "*">>, session.outcomes, 5)
         \o DescriptionBlock(<<"*", "*", "L", "e", "a", "r", "n", "i", "n", "g", "s", ":", "*", "*">>, session.learnings, 3)
         \o (IF Len(session.commits) > 0
             THEN << <<"*", "*", "C", "o", "m", "m", "i", "t", "s", ":", "*", "*", " ">> \o join(session.commits, <<",", " ">>), <<>> >>
             ELSE <<>>)
         \o << <<"_", "S", "o", "u", "r", "c", "e", ":", " ">> \o session.sourceFile \o <<"_">> >>
    IN  join(lines, <<"\n">>)

\* toISOString raises a RangeError on an Invalid Date
sessionToCalendarEvent(session) ==
    IF ~session.startTime.def \/ ~session.endTime.def
    THEN [threw |-> FALSE, null |-> TRUE, event |-> <<>>]
    ELSE IF ~session.startTime.valid \/ ~session.endTime.valid
    THEN [threw |-> TRUE, null |-> FALSE, event |-> <<>>]
    ELSE [threw |-> FALSE, null |-> FALSE,
          event |-> [summary |-> formatSummary(session),
                     start |-> [dateTime |-> toISOString(session.startTime),
                                timeZone |-> session.timezone],
                     end |-> [dateTime |-> toISOString(session.endTime),
                              timeZone |-> session.timezone],
                     colorId |-> FLOW_COLOR_ID,
                     description |-> formatDescription(session)]]

\* the loop over the sessions; an exception of one conversion ends the call
RECURSIVE sessionsToCalendarEvents(_)
sessionsToCalendarEvents(ss) ==
    IF Len(ss) = 0 THEN [threw |-> FALSE, events |-> <<>>, skipped |-> <<>>]
    ELSE LET front == sessionsToCalendarEvents(SubSeq(ss, 1, Len(ss) - 1))
             session == ss[Len(ss)]
             event == sessionToCalendarEvent(session)
         IN  IF front.threw \/ event.threw
             THEN [threw |-> TRUE, events |-> <<>>, skipped |-> <<>>]
             ELSE IF ~event.null
             THEN [front EXCEPT !.events = Append(@, event.event)]
             ELSE [front EXCEPT !.skipped = Append(@, session)]

\* session.startTime.getSeconds(): NaN on an Invalid Date (here -1, which
\* differs from 0 as NaN does); zone offsets are whole minutes
getSeconds(d) == IF d.valid THEN (d.ms \div 1000) % 60 ELSE 0 - 1

getTimingSource(session) ==
    IF session.startTime.def /\ session.endTime.def
    THEN IF getSeconds(session.startTime) # 0 \/ getSeconds(session.endTime) # 0
         THEN "commits"
         ELSE "annotation"
    ELSE "none"

----------------------------------------------------------------------------
(* From journal to calendar events: parse, reconstruct, report, convert *)

OutOfRangeJournal ==
    JoinLines(<< <<"#", " ", "2", "0", "2", "6", "-", "0", "1", "-", "1", "5", ":", " ", "C", "a", "l", " ", "-", " ", "T">>,
                 <<"#", "#", " ", "S", "e", "s", "s", "i", "o", "n", " ", "1", ":", " ", "A">>,
                 <<"<", "!", "-", "-", " ", "s", "e", "s", "s", "i", "o", "n", "-", "t", "i", "m", "e", ":", " ", "2", "5", ":", "6", "1", "-", "2", "6", ":", "1", "0", " ", "-", "-", ">">>,
                 <<"#", "#", " ", "S", "e", "s", "s", "i", "o", "n", " ", "2">>,
                 <<"-", " ", "'", "A", "B", "C", "1", "2", "3", "4", "'">> >>)

TimedJournal ==
    JoinLines(<< <<"#", " ", "2", "0", "2", "6", "-", "0", "1", "-", "1", "5", ":", " ", "C", "a", "l", " ", "-", " ", "T">>,
                 <<"#", "#", " ", "S", "e", "s", "s", "i", "o", "n", " ", "1", ":", " ", "A">>,
                 <<"-", " ", "'", "A", "B", "C", "1", "2", "3", "4", "'">>,
                 <<"#", "#", " ", "S", "e", "s", "s", "i", "o", "n", " ", "2">>,
                 <<"<", "!", "-", "-", " ", "s", "e", "s", "s", "i", "o", "n", "-", "t", "i", "m", "e", ":", " ", "1", "0", ":", "3", "0", "-", "1", "2", ":", "4", "5", " ", "-", "-", ">">>,
                 <<"#", "#", " ", "S", "e", "s", "s", "i", "o", "n", " ", "3", ":", " ", "A">>,
                 <<"-", " ", "'", "0", "b", "a", "4", "e", "9", "1", "'">> >>)

CalendarJournals ==
    JournalFiles \cup { [path |-> DatedPath, text |-> OutOfRangeJournal],
                        [path |-> DatedPath, text |-> TimedJournal] }

InitCalendar ==
    /\ \E j \in CalendarJournals : filePath = j.path /\ content = j.text
    /\ sessions = <<>>
    /\ repo \in RepoStates
    /\ call = NoCall
    /\ pc = "read"
    /\ calendar = <<>>
    /\ runs = 0

\* const timingSource = getTimingSource(session)
TimingSource(i) ==
    /\ pc = "parsed"
    /\ i \in 1..Len(sessions)
    /\ call' = [op |-> "getTimingSource", index |-> i, session |-> sessions[i],
                value |-> getTimingSource(sessions[i])]
    /\ UNCHANGED <<filePath, content, sessions, repo, pc, calendar, runs>>

\* const { events, skipped } = sessionsToCalendarEvents(allSessions)
CreateEvents ==
    /\ pc = "parsed"
    /\ LET out == sessionsToCalendarEvents(sessions)
       IN  call' = [op |-> "sessionsToCalendarEvents", sessions |-> sessions,
                    threw |-> out.threw, events |-> out.events, skipped |-> out.skipped]
    /\ pc' = "events"
    /\ UNCHANGED <<filePath, content, sessions, repo, calendar, runs>>

NextCalendar ==
    \/ ParseDocument
    \/ \E config \in Configs : ReconstructAll(config)
    \/ \E i \in 1..3 : TimingSource(i)
    \/ CreateEvents

SpecCalendar == InitCalendar /\ [][NextCalendar]_vars

----------------------------------------------------------------------------
(* CLI: journal files of a directory within a date range                   *)
(*                                                                         *)
(* The Dates of the range filter are local wall-clock values; they are     *)
(* kept as a day number of the Gregorian calendar (days since 1970-01-01)  *)
(* and the milliseconds within that day.                                   *)

\* day number of the first day of a month (month 1..12)
DaysFromCivil(year, month, day) ==
    LET y == IF month <= 2 THEN year - 1 ELSE year
        era == y \div 400
        yoe == y - era * 400
        mp == IF month > 2 THEN month - 3 ELSE month + 9
        doy == ((153 * mp + 2) \div 5) + day - 1
        doe == yoe * 365 + (yoe \div 4) - (yoe \div 100) + doy
    IN  era * 146097 + doe - 719468

\* year, month (1..12) and day of the month of a day number
CivilFromDays(days) ==
    LET z == days + 719468
        era == z \div 146097
        doe == z - era * 146097
        yoe == (doe - (doe \div 1460) + (doe \div 36524) - (doe \div 146096)) \div 365
        doy == doe - (365 * yoe + (yoe \div 4) - (yoe \div 100))
        mp == (5 * doy + 2) \div 153
        d == doy - ((153 * mp + 2) \div 5) + 1
        m == IF mp < 10 THEN mp + 3 ELSE mp - 9
    IN  [year |-> yoe + era * 400 + (IF m <= 2 THEN 1 ELSE 0), month |-> m, day |-> d]

NoDate == [def |-> FALSE, days |-> 0, ms |-> 0]

\* new Date(year, monthIndex, day): local midnight; a year of 0..99 means
\* 1900 + year, a month index or a day out of range carries over
newDateLocal(year, monthIndex, day) ==
    LET fullYear == IF year \in 0..99 THEN 1900 + year ELSE year
        y == fullYear + (monthIndex \div 12)
        m == (monthIndex % 12) + 1
    IN  [def |-> TRUE, days |-> DaysFromCivil(y, m, 1) + day - 1, ms |-> 0]

getFullYear(date) == CivilFromDays(date.days).year
getMonth(date) == CivilFromDays(date.days).month - 1
getDate(date) == CivilFromDays(date.days).day

\* a < b on two local Dates
LocalDateLess(a, b) == a.days < b.days \/ (a.days = b.days /\ a.ms < b.ms)

\* dateStr.match(/^(\d{4})-(\d{2})-(\d{2})$/) and the round trip through Date
parseDate(dateStr) ==
    IF ~(Len(dateStr) = 10 /\ DateShapeAt(dateStr, 1)) THEN NoDate
    ELSE LET year == parseInt(SubSeq(dateStr, 1, 4))
             month == parseInt(SubSeq(dateStr, 6, 7))
             day == parseInt(SubSeq(dateStr, 9, 10))
             date == newDateLocal(year, month - 1, day)
         IN  IF getFullYear(date) # year \/ getMonth(date) # month - 1 \/ getDate(date) # day
             THEN NoDate
             ELSE date

\* new Date().toISOString().split("T")[0]: the calendar date in UTC of the
\* instant now, given as UTC day number and milliseconds within the day
getTodayString(now) ==
    LET c == CivilFromDays(now.days)
    IN  PadStart(c.year, 4) \o <<"-">> \o PadStart(c.month, 2) \o <<"-">> \o PadStart(c.day, 2)

\* endOfToDate.setHours(23, 59, 59, 999)
EndOfDay(date) == [date EXCEPT !.ms = ((23 * 60 + 59) * 60 + 59) * 1000 + 999]

isDateInRange(dateStr, fromDate, toDate) ==
    LET date == parseDate(dateStr)
    IN  IF ~date.def THEN FALSE
        ELSE IF fromDate.def /\ LocalDateLess(date, fromDate) THEN FALSE
        ELSE IF toDate.def /\ LocalDateLess(EndOfDay(toDate), date) THEN FALSE
        ELSE TRUE

\* entry.match(/^(\d{4}-\d{2}-\d{2})\.md$/)
JournalNameMatch(entry) ==
    Len(entry) = 13 /\ DateShapeAt(entry, 1) /\ StartsWithAt(entry, 11, <<".", "m", "d">>)

\* the characters of the names, in the order of their UTF-16 code units
CodeUnitOrder ==
    <<"-", ".", "/", "0", "1", "2", "3", "4", "5", "6", "7", "8", "9", "A", "B", "C", "D", "E", "F", "G", "H", "I", "J", "K", "L", "M", "N", "O", "P", "Q", "R", "S", "T", "U", "V", "W", "X", "Y", "Z", "_", "a", "b", "c", "d", "e", "f", "g", "h", "i", "j", "k", "l", "m", "n", "o", "p", "q", "r", "s", "t", "u", "v", "w", "x", "y", "z">>

CodeUnit(c) == CHOOSE i \in 1..Len(CodeUnitOrder) : CodeUnitOrder[i] = c

\* a < b as Array.prototype.sort compares strings without a comparator
StringLess(a, b) ==
    \E k \in 1..(Len(a) + 1) :
        /\ k <= Len(b)
        /\ \A i \in 1..(k - 1) : a[i] = b[i]
        /\ (k = Len(a) + 1 \/ CodeUnit(a[k]) < CodeUnit(b[k]))

\* files.sort() of distinct paths
sort(files) ==
    [i \in 1..Len(files) |->
        CHOOSE f \in {files[k] : k \in 1..Len(files)} :
            Cardinality({files[k] : k \in {j \in 1..Len(files) : StringLess(files[j], f)}}) = i - 1]

\* join(dirPath, entry)
JoinPath(dirPath, entry) == dirPath \o <<"/">> \o entry

\* entries: what readdirSync returns, each with what statSync says of it
findJournalFiles(dirPath, entries, fromDate, toDate) ==
    LET keep == SelectSeq(entries, LAMBDA e :
                    /\ JournalNameMatch(e.name)
                    /\ isDateInRange(SubSeq(e.name, 1, 10), fromDate, toDate)
                    /\ e.isFile)
    IN  sort([i \in 1..Len(keep) |-> JoinPath(dirPath, keep[i].name)])

----------------------------------------------------------------------------
(* A run over a directory: --dir, with or without --from and --to *)

MaxEntries == 2

JournalDir == <<"/", "j">>

EntryNames ==
    { <<"2", "0", "2", "6", "-", "0", "1", "-", "1", "5", ".", "m", "d">>, <<"2", "0", "2", "6", "-", "0", "1", "-", "1", "6", ".", "m", "d">>, <<"2", "0", "2", "5", "-", "1", "2", "-", "3", "1", ".", "m", "d">>, <<"2", "0", "2", "4", "-", "0", "2", "-", "2", "9", ".", "m", "d">>,
      <<"2", "0", "2", "5", "-", "0", "2", "-", "2", "9", ".", "m", "d">>, <<"2", "0", "2", "6", "-", "1", "3", "-", "0", "1", ".", "m", "d">>, <<"2", "0", "2", "6", "-", "0", "1", "-", "0", "0", ".", "m", "d">>, <<"0", "0", "9", "9", "-", "1", "2", "-", "3", "1", ".", "m", "d">>,
      <<"n", "o", "t", "e", "s", ".", "m", "d">>, <<"2", "0", "2", "6", "-", "1", "-", "5", ".", "m", "d">>, <<"2", "0", "2", "6", "-", "0", "1", "-", "1", "5", ".", "m", "d", ".", "b", "a", "k">>, <<"x", "2", "0", "2", "6", "-", "0", "1", "-", "1", "5", ".", "m", "d">> }

\* one name of the pool is a directory
Entries ==
    {[name |-> n, isFile |-> (n # <<"2", "0", "2", "6", "-", "0", "1", "-", "1", "4", ".", "m", "d">>)] : n \in EntryNames \cup { <<"2", "0", "2", "6", "-", "0", "1", "-", "1", "4", ".", "m", "d">> }}

Directories ==
    {es \in UNION {[1..n -> Entries] : n \in 0..MaxEntries} :
        \A i, j \in 1..Len(es) : i # j => es[i].name # es[j].name}

\* the value of --from or --to, or no such option
NoOption == [given |-> FALSE, value |-> <<>>]
Option(value) == [given |-> TRUE, value |-> value]

FromOptions == {NoOption, Option(<<"2", "0", "2", "6", "-", "0", "1", "-", "1", "5">>), Option(<<"2", "0", "2", "5", "-", "1", "2", "-", "3", "1">>), Option(<<"2", "0", "2", "6", "-", "0", "2", "-", "3", "0">>)}
ToOptions == {NoOption, Option(<<"2", "0", "2", "6", "-", "0", "1", "-", "1", "5">>), Option(<<"2", "0", "2", "5", "-", "1", "2", "-", "3", "1">>)}

\* the instant of the run in UTC: noon and 20:00 of 2026-01-15 in Los Angeles
Clocks ==
    { [days |-> DaysFromCivil(2026, 1, 15), ms |-> 20 * 60 * MsPerMinute],
      [days |-> DaysFromCivil(2026, 1, 16), ms |-> 4 * 60 * MsPerMinute] }

InitDir ==
    /\ filePath = JournalDir
    /\ content = <<>>
    /\ sessions = <<>>
    /\ repo = InitRepo
    /\ call = NoCall
    /\ pc = "read"
    /\ calendar = <<>>
    /\ runs = 0

\* main with --dir filePath and the two options: parseArgs leaves the run
\* with exit code 1 on a date that parseDate refuses; otherwise the files to
\* process are what findJournalFiles returns
FindJournalFiles(entries, from, to, now) ==
    /\ pc = "read"
    /\ LET fromDate == IF from.given THEN parseDate(from.value) ELSE NoDate
           toGiven == IF to.given THEN parseDate(to.value) ELSE NoDate
           refused == (from.given /\ ~fromDate.def) \/ (to.given /\ ~toGiven.def)
           toDate == IF toGiven.def THEN toGiven
                     ELSE IF fromDate.def THEN parseDate(getTodayString(now))
                     ELSE NoDate
       IN  call' = [op |-> "findJournalFiles", entries |-> entries, from |-> from,
                    to |-> to, now |-> now, exited |-> refused,
                    filesToProcess |-> IF refused THEN <<>>
                                       ELSE findJournalFiles(filePath, entries, fromDate, toDate)]
    /\ pc' = "done"
    /\ UNCHANGED <<filePath, content, sessions, repo, calendar, runs>>

NextDir ==
    /\ pc = "read"
    /\ \E entries \in Directories, from \in FromOptions, to \in ToOptions, now \in Clocks :
          FindJournalFiles(entries, from, to, now)

SpecDir == InitDir /\ [][NextDir]_vars

----------------------------------------------------------------------------
(* Calendar service: duplicates of events the calendar already holds *)

Abs(n) == IF n < 0 THEN 0 - n ELSE n

\* the callback of existingEvents.find in findExistingEvent; a dateTime of
\* an event is never the empty string
MatchesExisting(existing, event) ==
    /\ existing.summary = event.summary
    /\ LET existingDate == newDate(existing.start.dateTime)
           eventDate == newDate(event.start.dateTime)
       IN  /\ existingDate.valid /\ eventDate.valid
           /\ Abs(existingDate.ms - eventDate.ms) < 60 * 1000

\* !== undefined of the result of findExistingEvent
findExistingEvent(event, existingEvents) ==
    \E i \in 1..Len(existingEvents) : MatchesExisting(existingEvents[i], event)

filterDuplicates(newEvents, existingEvents) ==
    [toCreate |-> SelectSeq(newEvents, LAMBDA e : ~findExistingEvent(e, existingEvents)),
     duplicates |-> SelectSeq(newEvents, LAMBDA e : findExistingEvent(e, existingEvents))]

----------------------------------------------------------------------------
(* CLI: arguments, and a run from the arguments to the calendar *)

\* args[i], undefined (here the empty text, falsy as well) past the end
ArgAt(args, i) == IF i <= Len(args) THEN args[i] ELSE <<>>

Home == <<"/", "h", "o", "m", "e", "/", "u">>

expandPath(path) ==
    IF startsWith(path, <<"~">>) THEN Home \o SubSeq(path, 2, Len(path)) ELSE path

\* dirname(filePath) of an absolute path
dirname(path) ==
    LET slashes == {q \in 1..Len(path) : path[q] = "/"}
    IN  IF slashes = {} THEN <<".">>
        ELSE IF Max(slashes) = 1 THEN <<"/">>
        ELSE SubSeq(path, 1, Max(slashes) - 1)

\* the file system of a run: one journal file, in the repository directory
RunPath == <<"/", "r", "e", "p", "o", "/", "2", "0", "2", "6", "-", "0", "1", "-", "1", "5", ".", "m", "d">>
RunDir == <<"/", "r", "e", "p", "o">>

existsSync(path) == path \in {RunPath, RunDir}
isDirectory(path) == path = RunDir

\* the location of a repository as the resolver takes it
AsRepoPath(path) == IF path = RunDir THEN RepoDir ELSE "/nonexistent/path"

DefaultOptions ==
    [dryRun |-> TRUE, execute |-> FALSE, skipConfirm |-> FALSE, filePath |-> <<>>,
     dirPath |-> <<>>, fromDate |-> NoDate, toDate |-> NoDate, repoPath |-> <<>>,
     exited |-> FALSE]

\* the loop of parseArgs from args[i] on; exited: process.exit(1) on a date
\* that parseDate refuses (a missing value makes parseDate raise, which ends
\* the run the same way)
RECURSIVE parseArgsFrom(_, _, _)
parseArgsFrom(args, i, options) ==
    IF i > Len(args) THEN options
    ELSE LET arg == args[i]
             value == ArgAt(args, i + 1)
         IN  IF arg = <<"-", "-", "d", "r", "y", "-", "r", "u", "n">>
             THEN parseArgsFrom(args, i + 1, [options EXCEPT !.dryRun = TRUE, !.execute = FALSE])
             ELSE IF arg = <<"-", "-", "e", "x", "e", "c", "u", "t", "e">>
             THEN parseArgsFrom(args, i + 1, [options EXCEPT !.execute = TRUE, !.dryRun = FALSE])
             ELSE IF arg = <<"-", "-", "y", "e", "s">> \/ arg = <<"-", "y">>
             THEN parseArgsFrom(args, i + 1, [options EXCEPT !.skipConfirm = TRUE])
             ELSE IF arg = <<"-", "-", "f", "i", "l", "e">>
             THEN parseArgsFrom(args, i + 2, [options EXCEPT !.filePath = value])
             ELSE IF arg = <<"-", "-", "d", "i", "r">>
             THEN parseArgsFrom(args, i + 2, [options EXCEPT !.dirPath = value])
             ELSE IF arg = <<"-", "-", "f", "r", "o", "m">>
             THEN IF ~parseDate(value).def THEN [options EXCEPT !.exited = TRUE]
                  ELSE parseArgsFrom(args, i + 2, [options EXCEPT !.fromDate = parseDate(value)])
             ELSE IF arg = <<"-", "-", "t", "o">>
             THEN IF ~parseDate(value).def THEN [options EXCEPT !.exited = TRUE]
                  ELSE parseArgsFrom(args, i + 2, [options EXCEPT !.toDate = parseDate(value)])
             ELSE IF arg = <<"-", "-", "r", "e", "p", "o">>
             THEN parseArgsFrom(args, i + 2, [options EXCEPT !.repoPath = value])
             ELSE IF ~startsWith(arg, <<"-">>)
             THEN IF existsSync(expandPath(arg)) /\ isDirectory(expandPath(arg))
                  THEN parseArgsFrom(args, i + 1, [options EXCEPT !.dirPath = arg])
                  ELSE parseArgsFrom(args, i + 1, [options EXCEPT !.filePath = arg])
             ELSE parseArgsFrom(args, i + 1, options)

parseArgs(args) == parseArgsFrom(args, 1, DefaultOptions)

\* answer.toLowerCase() === "y" || answer.toLowerCase() === "yes"
confirmAction(answer) == toLowerCase(answer) = <<"y">> \/ toLowerCase(answer) = <<"y", "e", "s">>

\* Math.ceil(a / b) for b > 0
Ceil(a, b) == 0 - ((0 - a) \div b)

RECURSIVE EarliestStart(_, _)
EarliestStart(ss, minDate) ==
    IF Len(ss) = 0 THEN minDate
    ELSE EarliestStart(Tail(ss),
            IF ss[1].startTime.def /\ DateLess(ss[1].startTime, minDate)
            THEN ss[1].startTime ELSE minDate)

RECURSIVE LatestEnd(_, _)
LatestEnd(ss, maxDate) ==
    IF Len(ss) = 0 THEN maxDate
    ELSE LatestEnd(Tail(ss),
            IF ss[1].endTime.def /\ DateLess(maxDate, ss[1].endTime)
            THEN ss[1].endTime ELSE maxDate)

getDateRange(ss, now) ==
    LET minDate == EarliestStart(ss, now)
        maxDate == LatestEnd(ss, now)
        daysBack == Ceil(now.ms - minDate.ms, MsPerDay) + 1
        daysForward == Ceil(maxDate.ms - now.ms, MsPerDay) + 1
    IN  [daysBack |-> Max({daysBack, 1}), daysForward |-> Max({daysForward, 1})]

\* what the events list of the calendar returns for timeMin..timeMax
fetchEvents(daysBack, daysForward, now) ==
    SelectSeq(calendar, LAMBDA e :
        /\ newDate(e.end.dateTime).ms > now.ms - daysBack * MsPerDay
        /\ newDate(e.start.dateTime).ms < now.ms + daysForward * MsPerDay)

----------------------------------------------------------------------------
(* Runs of the CLI on one journal file *)

MaxFlags == 3
MaxRuns == 2

RunJournal ==
    JoinLines(<< <<"#", " ", "2", "0", "2", "6", "-", "0", "1", "-", "1", "5", ":", " ", "C", "a", "l", " ", "-", " ", "T">>,
                 <<"#", "#", " ", "S", "e", "s", "s", "i", "o", "n", " ", "1", ":", " ", "A">>,
                 <<"<", "!", "-", "-", " ", "s", "e", "s", "s", "i", "o", "n", "-", "t", "i", "m", "e", ":", " ", "1", "0", ":", "3", "0", "-", "1", "2", ":", "4", "5", " ", "-", "-", ">">>,
                 <<"#", "#", " ", "S", "e", "s", "s", "i", "o", "n", " ", "2">>,
                 <<"-", " ", "'", "0", "b", "a", "4", "e", "9", "1", "'">> >>)

\* two sessions of the same theme at the same time
TwinJournal ==
    JoinLines(<< <<"#", " ", "2", "0", "2", "6", "-", "0", "1", "-", "1", "5", ":", " ", "C", "a", "l", " ", "-", " ", "T">>,
                 <<"#", "#", " ", "S", "e", "s", "s", "i", "o", "n", " ", "1", ":", " ", "A">>,
                 <<"<", "!", "-", "-", " ", "s", "e", "s", "s", "i", "o", "n", "-", "t", "i", "m", "e", ":", " ", "1", "0", ":", "3", "0", "-", "1", "2", ":", "4", "5", " ", "-", "-", ">">>,
                 <<"#", "#", " ", "S", "e", "s", "s", "i", "o", "n", " ", "2", ":", " ", "A">>,
                 <<"<", "!", "-", "-", " ", "s", "e", "s", "s", "i", "o", "n", "-", "t", "i", "m", "e", ":", " ", "1", "0", ":", "3", "0", "-", "1", "1", ":", "0", "0", " ", "-", "-", ">">> >>)

RunJournals == {RunJournal, TwinJournal}

\* the repository holds the commit the journal names
RunRepos ==
    {r \in RepoStates : r.commits = << CHOOSE c \in CommitPool : c.hash[8] = "0" >>}

FlagTokens == { <<"-", "-", "d", "r", "y", "-", "r", "u", "n">>, <<"-", "-", "e", "x", "e", "c", "u", "t", "e">>, <<"-", "-", "y", "e", "s">>, <<"-", "y">>, <<"-", "-", "r", "e", "p", "o">> }

ArgTails == { <<>>, <<RunPath>>, << <<"-", "-", "f", "i", "l", "e">>, RunPath >>, << <<"-", "-", "h", "e", "l", "p">> >> }

ArgLists ==
    {flags \o tail : flags \in UNION {[1..n -> FlagTokens] : n \in 0..MaxFlags},
                     tail \in ArgTails}

Answers == { <<"y">>, <<"Y", "E", "S">>, <<"n">>, <<>> }

\* the instant of a run: 2026-01-16T12:00:00Z
RunClocks == { DateOf(15 * MsPerDay + 12 * 60 * MsPerMinute) }

InitRun ==
    /\ filePath = RunPath
    /\ content \in RunJournals
    /\ sessions = <<>>
    /\ repo \in RunRepos
    /\ call = NoCall
    /\ pc = "read"
    /\ calendar = <<>>
    /\ runs = 0

\* the record of a run of main
MainCall(args, tokenFile, options, events) ==
    [op |-> "main", args |-> args, tokenFile |-> tokenFile, options |-> options,
     events |-> events, fetchFailed |-> FALSE, toCreate |-> <<>>, asked |-> FALSE,
     answer |-> <<>>, next |-> 1, success |-> 0, failed |-> 0]

\* main from its start to the first await: usage, parseArgs, the check of the
\* token file, the files to process, parsing and reconstruction, the
\* conversion to events, and the whole of a dry run
StartMain(args, tokenFile) ==
    /\ pc = "read"
    /\ runs < MaxRuns
    /\ runs' = runs + 1
    /\ LET options == parseArgs(args)
           usage == Len(args) = 0 \/ \E i \in 1..Len(args) : args[i] = <<"-", "-", "h", "e", "l", "p">>
           noAuth == options.execute /\ ~tokenFile
           path == expandPath(options.filePath)
           noFile == \/ options.dirPath # <<>>
                     \/ options.filePath = <<>>
                     \/ ~existsSync(path) \/ isDirectory(path)
           stopped == usage \/ options.exited \/ noAuth \/ noFile
           repoPath == IF options.repoPath # <<>> THEN options.repoPath ELSE dirname(path)
       IN  /\ sessions' =
               IF stopped THEN <<>>
               ELSE reconstructAllSessions(repo, parseJournalFile(path, content),
                        Config({"repoPath"}, AsRepoPath(repoPath), 0, 0))
           /\ LET converted == sessionsToCalendarEvents(sessions')
                  events == IF converted.threw THEN <<>> ELSE converted.events
              IN  /\ call' = MainCall(args, tokenFile, options, events)
                  /\ pc' = IF Len(events) > 0 /\ ~options.dryRun /\ options.execute
                           THEN "fetch" ELSE "exit"
    /\ UNCHANGED <<filePath, content, repo, calendar>>

\* await fetchEvents(...) inside try/catch, then filterDuplicates
FetchExisting(fails, now) ==
    /\ pc = "fetch"
    /\ LET range == getDateRange(sessions, now)
           existingEvents == IF fails THEN <<>>
                             ELSE fetchEvents(range.daysBack, range.daysForward, now)
           toCreate == filterDuplicates(call.events, existingEvents).toCreate
       IN  /\ call' = [call EXCEPT !.fetchFailed = fails, !.toCreate = toCreate]
           /\ pc' = IF Len(toCreate) = 0 THEN "exit"
                    ELSE IF call.options.skipConfirm THEN "insert" ELSE "confirm"
    /\ UNCHANGED <<filePath, content, sessions, repo, calendar, runs>>

\* await confirmAction("Create these calendar events?")
Confirm(answer) ==
    /\ pc = "confirm"
    /\ call' = [call EXCEPT !.asked = TRUE, !.answer = answer]
    /\ pc' = IF confirmAction(answer) THEN "insert" ELSE "exit"
    /\ UNCHANGED <<filePath, content, sessions, repo, calendar, runs>>

\* one turn of the loop of insertFlowEvents: await insertFlowEvent(event)
InsertFlowEvent(ok) ==
    /\ pc = "insert"
    /\ LET event == call.toCreate[call.next]
       IN  /\ calendar' = IF ok THEN Append(calendar, event) ELSE calendar
           /\ call' = [call EXCEPT !.next = @ + 1,
                                   !.success = IF ok THEN @ + 1 ELSE @,
                                   !.failed = IF ok THEN @ ELSE @ + 1]
           /\ pc' = IF call.next = Len(call.toCreate) THEN "exit" ELSE "insert"
    /\ UNCHANGED <<filePath, content, sessions, repo, runs>>

\* the process ends; nothing of it is left but the calendar
ProcessExit ==
    /\ pc = "exit"
    /\ pc' = "read"
    /\ call' = NoCall
    /\ sessions' = <<>>
    /\ UNCHANGED <<filePath, content, repo, calendar, runs>>

NextRun ==
    \/ /\ pc = "read"
       /\ \E args \in ArgLists, tokenFile \in BOOLEAN : StartMain(args, tokenFile)
    \/ \E fails \in BOOLEAN, now \in RunClocks : FetchExisting(fails, now)
    \/ \E answer \in Answers : Confirm(answer)
    \/ \E ok \in BOOLEAN : InsertFlowEvent(ok)
    \/ ProcessExit

SpecRun == InitRun /\ [][NextRun]_vars

----------------------------------------------------------------------------
(* Several journals in one process: main's loop over the files, with the   *)
(* calls for the sessions in any order                                     *)

\* a parser that numbers the sessions on from those of earlier documents
parseJournalFileCounting(all, path, c) ==
    LET parsed == parseJournalFile(path, c)
    IN  [k \in 1..Len(parsed) |-> [parsed[k] EXCEPT !.sessionNumber = Len(all) + k]]

\* parseJournalFile(path) called after the sessions in all were produced:
\* the function reads the file and nothing else
parseJournalFileAfter(all, path, c) == parseJournalFile(path, c)

BatchFiles ==
    { [path |-> DatedPath,
       text |-> JoinLines(<< <<"#", "#", " ", "S", "e", "s", "s", "i", "o", "n", " ", "1", ":", " ", "A">>,
                             <<"-", " ", "'", "0", "b", "a", "4", "e", "9", "1", "'">>,
                             <<"#", "#", " ", "S", "e", "s", "s", "i", "o", "n", " ", "2">>,
                             <<"<", "!", "-", "-", " ", "s", "e", "s", "s", "i", "o", "n", "-", "t", "i", "m", "e", ":", " ", "1", "0", ":", "3", "0", "-", "1", "2", ":", "4", "5", " ", "-", "-", ">">> >>)],
      [path |-> <<"/", "j", "/", "2", "0", "2", "6", "-", "0", "1", "-", "1", "6", ".", "m", "d">>,
       text |-> JoinLines(<< <<"#", "#", " ", "S", "e", "s", "s", "i", "o", "n", " ", "1", ":", " ", "B">>,
                             <<"-", " ", "'", "A", "B", "C", "1", "2", "3", "4", "'">> >>)] }

\* no repository, or one that holds the commits the journals name
BatchRepos ==
    {r \in RepoStates : ~r.exists \/ (Len(r.commits) = 1 /\ r.commits[1].hash[8] = "0")}

BatchConfigs == {c \in Configs : c.repoPath # "/nonexistent/repo"}

InitBatch ==
    /\ filePath = <<>>
    /\ content = <<>>
    /\ sessions = <<>>
    /\ repo \in BatchRepos
    /\ call = NoCall
    /\ pc = "read"
    /\ calendar = <<>>
    /\ runs = 0

\* const sessions = parseJournalFile(filePath); allSessions.push(...sessions)
\* for a file that was not processed yet
ParseFile(file) ==
    /\ pc \in {"read", "parsed"}
    /\ \A i \in 1..Len(sessions) : sessions[i].sourceFile # file.path
    /\ filePath' = file.path
    /\ content' = file.text
    /\ sessions' = sessions \o parseJournalFileAfter(sessions, file.path, file.text)
    /\ call' = [op |-> "parseJournalFile", filePath |-> file.path]
    /\ pc' = "parsed"
    /\ UNCHANGED <<repo, calendar, runs>>

NextBatch ==
    \/ \E file \in BatchFiles : ParseFile(file)
    \/ \E i \in 1..3, config \in BatchConfigs : ReconstructSession(i, config)

SpecBatch == InitBatch /\ [][NextBatch]_vars

----------------------------------------------------------------------------
(* A history query whose output holds lines that are no "<hash> <date>" *)

\* what a line of the output is printed from: well-formed commits, a line
\* without timestamp, a line without hash, a blank line, and two lines whose
\* timestamp is no instant
LogEntries ==
    {c \in CommitPool : c.hash[8] = "0"} \cup
    { [hash |-> <<"0", "b", "a", "4", "e", "9", "1", "2">> \o Zeros(32), date |-> <<>>],
      [hash |-> <<>>, date |-> <<"2", "0", "2", "6", "-", "0", "1", "-", "1", "5", "T", "0", "7", ":", "0", "0", ":", "0", "0", "-", "0", "8", ":", "0", "0">>],
      [hash |-> <<>>, date |-> <<>>],
      [hash |-> <<"0", "b", "a", "4", "e", "9", "1", "3">> \o Zeros(32), date |-> <<"n", "o", "t", "-", "a", "-", "d", "a", "t", "e">>],
      [hash |-> <<"a", "b", "c", "1", "2", "3", "4", "1">> \o Zeros(32), date |-> <<"2", "0", "2", "6", "-", "1", "3", "-", "4", "5", "T", "1", "0", ":", "3", "0", ":", "0", "0", "-", "0", "8", ":", "0", "0">>] }

LogRepos ==
    {[exists |-> TRUE, commits |-> h] :
        h \in {h \in UNION {[1..n -> LogEntries] : n \in 1..MaxLog} :
                  \A i, j \in 1..Len(h) : i # j => h[i] # h[j]}}

LogJournal ==
    JoinLines(<< <<"#", "#", " ", "S", "e", "s", "s", "i", "o", "n", " ", "1", ":", " ", "A">>,
                 <<"-", " ", "'", "0", "b", "a", "4", "e", "9", "1", "'", " ", "'", "A", "B", "C", "1", "2", "3", "4", "'">> >>)

LogRefLists == { << <<"0", "b", "a", "4", "e", "9", "1">> >>, << <<"A", "B", "C", "1", "2", "3", "4">>, <<"0", "b", "a", "4", "e", "9", "1">> >>, << <<"f", "f", "f", "f", "f", "f", "f">> >> }

InitLog ==
    /\ filePath = DatedPath
    /\ content = LogJournal
    /\ sessions = <<>>
    /\ repo \in LogRepos
    /\ call = NoCall
    /\ pc = "read"
    /\ calendar = <<>>
    /\ runs = 0

NextLog ==
    \/ ParseDocument
    \/ \E config \in BatchConfigs : ReconstructSession(1, config)
    \/ \E commits \in LogRefLists : ResolveCommits(commits, RepoDir)

SpecLog == InitLog /\ [][NextLog]_vars

----------------------------------------------------------------------------
(* Calendar events, timing provenance *)

IsEventsCall == call.op = "sessionsToCalendarEvents"

\* the event of a session with two valid instants: its summary names the
\* project and the theme, its start and end are the session's instants
IsEventOf(event, session) ==
    /\ event.summary = formatSummary(session)
    /\ newDate(event.start.dateTime) = session.startTime
    /\ newDate(event.end.dateTime) = session.endTime
    /\ event.start.timeZone = session.timezone
    /\ event.end.timeZone = session.timezone

\* C21: sessionsToCalendarEvents partitions its input: the sessions with both
\* startTime and endTime give one event each, in input order, the other
\* sessions are the skipped list, in input order, and the two lengths add up
\* to the number of sessions.
C21_EventsPartitionSessions ==
    IsEventsCall =>
        LET timed == SelectSeq(call.sessions, Timed)
        IN  /\ ~call.threw
            /\ Len(call.events) + Len(call.skipped) = Len(call.sessions)
            /\ call.skipped = SelectSeq(call.sessions, Untimed)
            /\ Len(call.events) = Len(timed)
            /\ \A k \in 1..Len(call.events) : IsEventOf(call.events[k], timed[k])

----------------------------------------------------------------------------
(* Journal files within a date range *)

IsLeapYear(y) == (y % 4 = 0 /\ y % 100 # 0) \/ y % 400 = 0

DaysInMonth(y, m) ==
    IF m = 2 THEN (IF IsLeapYear(y) THEN 29 ELSE 28)
    ELSE IF m \in {4, 6, 9, 11} THEN 30 ELSE 31

\* the year, month and day a text YYYY-MM-DD names
NamedDate(s) ==
    [year |-> parseInt(SubSeq(s, 1, 4)), month |-> TwoDigits(s, 6), day |-> TwoDigits(s, 9)]

IsRealDate(c) ==
    c.month \in 1..12 /\ c.day >= 1 /\ c.day <= DaysInMonth(c.year, c.month)

\* c1 is the same day as c2 or an earlier one
NotAfter(c1, c2) ==
    \/ c1.year < c2.year
    \/ c1.year = c2.year /\ c1.month < c2.month
    \/ c1.year = c2.year /\ c1.month = c2.month /\ c1.day <= c2.day

\* the ten characters before .md are a date, and nothing else is in the name
NamedLikeAJournal(name) ==
    /\ Len(name) = 13
    /\ \A i \in {1, 2, 3, 4, 6, 7, 9, 10} : IsDigit(name[i])
    /\ name[5] = "-" /\ name[8] = "-"
    /\ SubSeq(name, 11, 13) = <<".", "m", "d">>

\* the calendar date the wall clock of the machine shows at the instant now
LocalToday(now) ==
    CivilFromDays(now.days + ((now.ms + LocalOffsetMinutes * MsPerMinute) \div MsPerDay))

\* the names of the regular files of a directory that a run with the given
\* --from and --to is to process
JournalsInRange(entries, from, to, now) ==
    {entries[i].name : i \in
        {k \in 1..Len(entries) :
            LET name == entries[k].name
                d == NamedDate(name)
            IN  /\ entries[k].isFile
                /\ NamedLikeAJournal(name)
                /\ IsRealDate(d)
                /\ from.given => NotAfter(NamedDate(from.value), d)
                /\ to.given => NotAfter(d, NamedDate(to.value))
                /\ (from.given /\ ~to.given) => NotAfter(d, LocalToday(now))}}

\* C22: a run with --dir processes exactly the files of the directory named
\* YYYY-MM-DD.md whose date is a real calendar date d with from <= d <= to,
\* both ends included, a missing bound not constraining and a missing --to
\* standing for today when --from is given; it processes them in ascending
\* order of date; entries of any other name are ignored.
C22_FilesInRangeAscending ==
    (call.op = "findJournalFiles" /\ ~call.exited) =>
        LET files == call.filesToProcess
            want == JournalsInRange(call.entries, call.from, call.to, call.now)
        IN  /\ {files[i] : i \in 1..Len(files)} = {JoinPath(filePath, n) : n \in want}
            /\ Len(files) = Cardinality(want)
            /\ \A i, j \in 1..Len(files) :
                  i < j => /\ NotAfter(NamedDate(basename(files[i])), NamedDate(basename(files[j])))
                           /\ files[i] # files[j]

----------------------------------------------------------------------------
(* Timing provenance *)

IsTimingSourceCall == call.op = "getTimingSource"

\* the session as the parser produced it, before any reconstruction
AsParsed(i) == parseJournalFile(filePath, content)[i]

\* C23: getTimingSource tells where the timing of a session came from:
\* "annotation" when the parser took it from a session-time marker,
\* "commits" when reconstructSessionTiming inferred it from commits, whatever
\* the seconds of the commit timestamps, "inferred" when the session has no
\* timing.
C23_TimingSourceIsProvenance ==
    IsTimingSourceCall =>
        /\ Timed(AsParsed(call.index)) => call.value = "annotation"
        /\ (Untimed(AsParsed(call.index)) /\ Timed(call.session)) => call.value = "commits"
        /\ Untimed(call.session) => call.value = "inferred"

----------------------------------------------------------------------------
(* Runs of the CLI: duplicates, and when events are created *)

\* the instant a dateTime text of an event names
InstantOf(dateTime) == newDate(dateTime).ms

\* an event of the same summary that starts less than a minute away
SameFlowEvent(a, b) ==
    /\ a.summary = b.summary
    /\ InstantOf(a.start.dateTime) - InstantOf(b.start.dateTime) < 60 * 1000
    /\ InstantOf(b.start.dateTime) - InstantOf(a.start.dateTime) < 60 * 1000

Holds(events, event) == \E i \in 1..Len(events) : SameFlowEvent(events[i], event)

\* C24: a run in execute mode never inserts an event when the calendar
\* already holds an event of the same summary that starts less than a minute
\* away, also when fetching the existing events fails; so a second --execute
\* over the same journal inserts nothing.
C24_NoDuplicateInserted ==
    [][calendar' # calendar => ~Holds(calendar, calendar'[Len(calendar')])]_vars

\* the last of --dry-run and --execute in an argument list; none: the default
LastMode(args) ==
    LET at == {i \in 1..Len(args) : args[i] \in { <<"-", "-", "d", "r", "y", "-", "r", "u", "n">>, <<"-", "-", "e", "x", "e", "c", "u", "t", "e">> }}
    IN  IF at = {} THEN <<"-", "-", "d", "r", "y", "-", "r", "u", "n">> ELSE args[Max(at)]

YesGiven(args) == \E i \in 1..Len(args) : args[i] \in { <<"-", "-", "y", "e", "s">>, <<"-", "y">> }

SaidYes(answer) == EqualIgnoringCase(answer, <<"y">>) \/ EqualIgnoringCase(answer, <<"y", "e", "s">>)

\* C25: insertFlowEvents is called only in a run whose last --dry-run or
\* --execute argument is --execute (no such argument means a dry run), that
\* found the token file, and that had --yes or -y or got the answer y or yes
\* to its question; after parseArgs exactly one of dryRun and execute is set;
\* in every other run the calendar stays as it is.
C25_InsertOnlyOnConfirmedExecute ==
    /\ call.op = "main" => call.options.dryRun # call.options.execute
    /\ pc = "insert" =>
          /\ LastMode(call.args) = <<"-", "-", "e", "x", "e", "c", "u", "t", "e">>
          /\ call.tokenFile
          /\ YesGiven(call.args) \/ (call.asked /\ SaidYes(call.answer))

----------------------------------------------------------------------------
(* No state between calls *)

\* the file of the batch a session was read from
FileOf(session) == CHOOSE file \in BatchFiles : file.path = session.sourceFile

\* the place of sessions[j] among the sessions of its file
PlaceInFile(j) ==
    Cardinality({i \in 1..j : sessions[i].sourceFile = sessions[j].sourceFile})

\* the session a lone call of the parser gives for the file and place of
\* sessions[j]
ParsedAlone(j) ==
    parseJournalFile(FileOf(sessions[j]).path, FileOf(sessions[j]).text)[PlaceInFile(j)]

----------------------------------------------------------------------------
(* History queries *)

\* C27: one call of reconstructSessionTiming issues at most one history
\* query, a failed query is not repeated and leaves the session without
\* timing, and no query is issued for a session that has timing or names no
\* commit; getCommitTimestamps with an empty list issues none.
C27_AtMostOneQuery ==
    /\ IsReconstructCall =>
          /\ call.queries <= 1
          /\ (Timed(call.session) \/ Len(call.session.commits) = 0) => call.queries = 0
          /\ (call.queries = 1 /\ QueryFails(call.repo, ConfiguredRepoPath(call.config)))
                => call.value = call.session
    /\ IsResolverCall =>
          /\ call.queries <= 1
          /\ Len(call.commits) = 0 => call.queries = 0

\* a session with commits and no timing was reconstructed, and its one
\* query failed
C27_Witness ==
    /\ IsReconstructCall
    /\ Untimed(call.session)
    /\ Len(call.session.commits) > 0
    /\ QueryFails(call.repo, ConfiguredRepoPath(call.config))
    /\ call.queries = 1

----------------------------------------------------------------------------
(* Malformed lines of the history *)

\* the line printed for the entry holds a hash and a timestamp that is an
\* instant
WellFormedLine(entry) ==
    /\ entry.hash # <<>>
    /\ entry.date # <<>>
    /\ newDate(entry.date).valid

\* the history without its malformed lines
WithoutMalformed(r) == [r EXCEPT !.commits = SelectSeq(r.commits, WellFormedLine)]

\* C28: lines of the history output that are empty, lack the hash or the
\* timestamp, or carry a timestamp that is no valid instant are skipped:
\* the mapping of the resolver is the one it builds without them, each of its
\* timestamps is a valid instant, and the session a reconstruction returns
\* is the one it returns without them.
C28_MalformedLinesSkipped ==
    /\ IsResolverCall =>
          /\ call.value =
                getCommitTimestamps(WithoutMalformed(call.repo), call.commits, call.repoPath).value
          /\ \A i \in 1..Len(call.value) : call.value[i].value.timestamp.valid
    /\ IsReconstructCall =>
          call.value =
             reconstructSessionTiming(WithoutMalformed(call.repo), call.session, call.config).value

----------------------------------------------------------------------------
(* Order of the inferred start and end *)

\* a.getTime() <= b.getTime(): false when either is an Invalid Date
DateNotAfter(a, b) == a.valid /\ b.valid /\ a.ms <= b.ms

\* the reconstruction received an untimed session and returned it timed
InferredFromCommits ==
    /\ IsReconstructCall
    /\ ~hasTimingInfo(call.session)
    /\ hasTimingInfo(call.value)

\* the buffers the reconstruction used
BuffersUsed == Spread(DEFAULT_CONFIG, call.config)

\* C29: a session whose timing was inferred from commits with non-negative
\* buffers starts no later than it ends, and with the default buffers
\* strictly before it ends, however many commits resolved and in whatever
\* order the history lists them.
C29_InferredStartBeforeEnd ==
    (/\ InferredFromCommits
     /\ BuffersUsed.preCommitBufferMinutes >= 0
     /\ BuffersUsed.postCommitBufferMinutes >= 0)
    => /\ DateNotAfter(call.value.startTime, call.value.endTime)
       /\ (/\ "preCommitBufferMinutes" \notin call.config.keys
           /\ "postCommitBufferMinutes" \notin call.config.keys)
          => DateLess(call.value.startTime, call.value.endTime)

----------------------------------------------------------------------------
(* Sessions tagged as annotated *)

\* d is a valid instant whose local calendar day is the one date names
OnDate(d, date) ==
    /\ d.def
    /\ d.valid
    /\ Len(date) = 10
    /\ DateShapeAt(date, 1)
    /\ LET year == parseInt(SubSeq(date, 1, 4))
           days == (year - 2026) * 372 + (TwoDigits(date, 6) - 1) * 31 + (TwoDigits(date, 9) - 1)
           localMs == d.ms + LocalOffsetMinutes * MsPerMinute
       IN  /\ localMs >= days * MsPerDay
           /\ localMs < (days + 1) * MsPerDay

====
